---- MODULE Spec2Model ----
(***************************************************************************)
(* Model of the Hermes form filler: field tracking and dynamic-field       *)
(* reconciliation (FormFiller.fill_all_fields, _fill_dynamic_fields), the  *)
(* per-field fill (fill_field, _get_value_for_field, _fill_by_type and the  *)
(* EEO strategies) and the pending-question store (config.py).             *)
(*                                                                         *)
(* Text is modelled as a sequence of one-character strings, so that        *)
(* lower-casing, stripping, substring and prefix tests are computed the    *)
(* way the Python code computes them.                                      *)
(***************************************************************************)
EXTENDS Integers, Sequences, FiniteSets, TLC

(***************************************************************************)
(* Text helpers (Python str methods used by the code).                     *)
(***************************************************************************)
UpperToLower ==
  [A |-> "a", B |-> "b", C |-> "c", D |-> "d", E |-> "e", F |-> "f", G |-> "g",
   H |-> "h", I |-> "i", J |-> "j", K |-> "k", L |-> "l", M |-> "m", N |-> "n",
   O |-> "o", P |-> "p", Q |-> "q", R |-> "r", S |-> "s", T |-> "t", U |-> "u",
   V |-> "v", W |-> "w", X |-> "x", Y |-> "y", Z |-> "z"]

\* str.lower()
Lower(s) ==
  [i \in 1..Len(s) |-> IF s[i] \in DOMAIN UpperToLower THEN UpperToLower[s[i]] ELSE s[i]]

\* str.strip(): drop leading and trailing blanks
RECURSIVE LStrip(_)
LStrip(s) == IF s # <<>> /\ Head(s) = " " THEN LStrip(Tail(s)) ELSE s

RECURSIVE RStrip(_)
RStrip(s) ==
  IF s # <<>> /\ s[Len(s)] = " " THEN RStrip(SubSeq(s, 1, Len(s) - 1)) ELSE s

Strip(s) == RStrip(LStrip(s))

\* prefix test: s.startswith(p)
StartsWith(s, p) == Len(p) <= Len(s) /\ SubSeq(s, 1, Len(p)) = p

\* substring test: sub in s
Contains(sub, s) ==
  \E i \in 1..(Len(s) + 1) :
    i + Len(sub) - 1 <= Len(s) /\ SubSeq(s, i, i + Len(sub) - 1) = sub

\* any(k in s for k in ks), ks a sequence of texts
ContainsAny(ks, s) == \E k \in 1..Len(ks) : Contains(ks[k], s)

\* the elements of a sequence
Range(q) == {q[k] : k \in 1..Len(q)}

(***************************************************************************)
(* field_mapping.py: semantic types, high-risk and EEO classification.     *)
(***************************************************************************)
\* The FieldType values the pattern catalog FIELD_PATTERNS can assign, and
\* "unknown", the default of _match_field_type.
FieldType ==
  {"first_name", "last_name", "full_name", "email", "phone", "linkedin", "github",
   "portfolio", "address", "city", "state", "zip_code", "country",
   "authorized_to_work", "require_sponsorship", "visa_status",
   "years_of_experience", "current_company", "current_title", "highest_degree",
   "university", "resume", "cover_letter", "expected_salary", "start_date",
   "gender", "hispanic_latino", "race", "ethnicity", "veteran_status",
   "disability_status", "how_did_you_hear", "unknown"}

HIGH_RISK_FIELDS ==
  {"authorized_to_work", "require_sponsorship", "visa_status", "gender",
   "ethnicity", "race", "hispanic_latino", "veteran_status", "disability_status",
   "expected_salary", "salary_range_min", "salary_range_max"}

EEO_FIELD_TYPES ==
  {"gender", "ethnicity", "race", "hispanic_latino", "veteran_status",
   "disability_status"}

EEO_KEYWORDS ==
  << <<"r","a","c","e">>, <<"e","t","h","n","i","c","i","t","y">>, <<"g","e","n","d","e","r">>, <<"s","e","x">>, <<"d","i","s","a","b","i","l","i","t","y">>, <<"v","e","t","e","r","a","n">>, <<"e","e","o">>,
     <<"e","q","u","a","l"," ","e","m","p","l","o","y","m","e","n","t">>, <<"h","i","s","p","a","n","i","c">>, <<"l","a","t","i","n","o">>, <<"e","e","o","c">>,
     <<"v","o","l","u","n","t","a","r","y"," ","s","e","l","f","-","i","d","e","n","t","i","f","i","c","a","t","i","o","n">>, <<"d","e","m","o","g","r","a","p","h","i","c">> >>

\* in order of preference
EEO_DECLINE_OPTIONS ==
  << <<"i"," ","d","o"," ","n","o","t"," ","w","i","s","h"," ","t","o"," ","d","i","s","c","l","o","s","e">>, <<"d","e","c","l","i","n","e"," ","t","o"," ","a","n","s","w","e","r">>, <<"p","r","e","f","e","r"," ","n","o","t"," ","t","o"," ","s","a","y">>,
     <<"d","e","c","l","i","n","e"," ","t","o"," ","s","e","l","f","-","i","d","e","n","t","i","f","y">>, <<"i"," ","d","o","n","'","t"," ","w","i","s","h"," ","t","o"," ","a","n","s","w","e","r">>,
     <<"c","h","o","o","s","e"," ","n","o","t"," ","t","o"," ","d","i","s","c","l","o","s","e">>, <<"d","e","c","l","i","n","e">>, <<"p","r","e","f","e","r"," ","n","o","t"," ","t","o"," ","a","n","s","w","e","r">>,
     <<"i"," ","c","h","o","o","s","e"," ","n","o","t"," ","t","o"," ","d","i","s","c","l","o","s","e">> >>

is_eeo_field(field_type) == field_type \in EEO_FIELD_TYPES

is_eeo_keyword_in_text(text) == ContainsAny(EEO_KEYWORDS, Lower(text))

is_high_risk_field(field_type) == field_type \in HIGH_RISK_FIELDS

(***************************************************************************)
(* config.py: the profile and the custom-answer store.                     *)
(* Python's None and "" are both the empty text <<>>: the code tests every *)
(* such value by truthiness only.                                          *)
(***************************************************************************)
Digits == <<"0", "1", "2", "3", "4", "5", "6", "7", "8", "9">>

IsDigit(c) == c \in Range(Digits)

\* str(n) for a natural number
RECURSIVE IntToStr(_)
IntToStr(n) ==
  IF n < 10 THEN <<Digits[n + 1]>>
  ELSE IntToStr(n \div 10) \o <<Digits[(n % 10) + 1]>>

\* int(s) for a text of digits
RECURSIVE StrToInt(_)
StrToInt(s) ==
  LET DigitValue(c) == CHOOSE d \in 0..9 : Digits[d + 1] = c
  IN  IF s = <<>> THEN 0
      ELSE 10 * StrToInt(SubSeq(s, 1, Len(s) - 1)) + DigitValue(s[Len(s)])

YesNo(b) == IF b THEN <<"Y","e","s">> ELSE <<"N","o">>

\* Profile.get_field_value: the field_map lookup; a type without an entry gives None
get_field_value(p, field_type) ==
  CASE field_type = "first_name" -> p.first_name
    [] field_type = "last_name" -> p.last_name
    [] field_type = "full_name" -> p.full_name
    [] field_type = "email" -> p.email
    [] field_type = "phone" -> p.phone
    [] field_type = "linkedin" -> p.linkedin
    [] field_type = "github" -> p.github
    [] field_type = "portfolio" -> p.portfolio
    [] field_type = "address" -> p.address
    [] field_type = "city" -> p.city
    [] field_type = "state" -> p.state
    [] field_type = "zip_code" -> p.zip_code
    [] field_type = "country" -> p.country
    [] field_type = "willing_to_relocate" -> YesNo(p.willing_to_relocate)
    [] field_type = "authorized_to_work" -> YesNo(p.authorized_to_work)
    [] field_type = "require_sponsorship" -> YesNo(p.require_sponsorship)
    [] field_type = "visa_status" -> p.visa_status
    [] field_type = "years_of_experience" -> IntToStr(p.years_of_experience)
    [] field_type = "current_company" -> p.current_company
    [] field_type = "current_title" -> p.current_title
    [] field_type = "highest_degree" -> p.highest_degree
    [] field_type = "field_of_study" -> p.field_of_study
    [] field_type = "university" -> p.university
    [] field_type = "graduation_year" -> IntToStr(p.graduation_year)
    [] field_type = "expected_salary" -> p.expected_salary
    [] field_type = "salary_range_min" -> p.salary_range_min
    [] field_type = "salary_range_max" -> p.salary_range_max
    [] field_type = "start_date" -> p.start_date
    [] field_type = "available_immediately" -> YesNo(p.available_immediately)
    [] field_type = "gender" -> p.gender
    [] field_type = "race" -> p.race
    [] field_type = "ethnicity" -> IF p.ethnicity # <<>> THEN p.ethnicity ELSE p.race
    [] field_type = "hispanic_latino" -> p.hispanic_latino
    [] field_type = "veteran_status" -> p.veteran_status
    [] field_type = "disability_status" -> p.disability_status
    [] OTHER -> <<>>

\* the characters re's \w keeps (after lower-casing) and the blank \s keeps
IsWordChar(c) ==
  c \in {"a", "b", "c", "d", "e", "f", "g", "h", "i", "j", "k", "l", "m", "n", "o",
         "p", "q", "r", "s", "t", "u", "v", "w", "x", "y", "z", "_"} \/ IsDigit(c)

\* ' '.join(text.split()): runs of blanks become one blank, none at the ends
RECURSIVE SqueezeFrom(_, _)
SqueezeFrom(s, i) ==
  IF i > Len(s) THEN <<>>
  ELSE (IF s[i] # " " \/ (i < Len(s) /\ s[i + 1] # " ") THEN <<s[i]>> ELSE <<>>)
       \o SqueezeFrom(s, i + 1)

_normalize_question(text) ==
  LET KeepWordOrSpace(c) == IsWordChar(c) \/ c = " "
      JoinSplit(s) == SqueezeFrom(LStrip(s), 1)
  IN  JoinSplit(SelectSeq(Lower(text), KeepWordOrSpace))

important_patterns ==
  << <<"n","o","n","-","c","o","m","p","e","t","e">>, <<"n","o","n","c","o","m","p","e","t","e">>, <<"n","o","n","-","s","o","l","i","c","i","t","a","t","i","o","n">>, <<"w","o","r","k","e","d"," ","f","o","r">>, <<"w","o","r","k","e","d"," ","a","t">>,
     <<"e","v","e","r"," ","w","o","r","k","e","d">>, <<"p","r","e","v","i","o","u","s","l","y"," ","w","o","r","k","e","d">>, <<"c","u","r","r","e","n","t","l","y"," ","w","o","r","k">>, <<"e","m","p","l","o","y","e","d"," ","b","y">>,
     <<"e","m","p","l","o","y","m","e","n","t">>, <<"a","u","t","h","o","r","i","z","e","d">>, <<"s","p","o","n","s","o","r","s","h","i","p">>, <<"v","i","s","a">>, <<"r","e","l","o","c","a","t","e">>, <<"r","e","m","o","t","e">>,
     <<"h","y","b","r","i","d">>, <<"o","n","s","i","t","e">>, <<"s","a","l","a","r","y">>, <<"c","o","m","p","e","n","s","a","t","i","o","n">>, <<"p","a","y">>, <<"s","t","a","r","t"," ","d","a","t","e">>,
     <<"a","v","a","i","l","a","b","l","e">>, <<"n","o","t","i","c","e"," ","p","e","r","i","o","d">>, <<"c","l","e","a","r","a","n","c","e">>, <<"s","e","c","u","r","i","t","y">>, <<"b","a","c","k","g","r","o","u","n","d"," ","c","h","e","c","k">>,
     <<"d","i","s","a","b","i","l","i","t","y">>, <<"v","e","t","e","r","a","n">>, <<"g","e","n","d","e","r">>, <<"r","a","c","e">>, <<"e","t","h","n","i","c","i","t","y">>, <<"r","e","f","e","r","r","e","d">>,
     <<"h","e","a","r"," ","a","b","o","u","t">>, <<"h","o","w"," ","d","i","d"," ","y","o","u"," ","f","i","n","d">>, <<"y","e","a","r","s"," ","o","f"," ","e","x","p","e","r","i","e","n","c","e">>, <<"e","x","p","e","r","i","e","n","c","e"," ","w","i","t","h">> >>

\* the set of the patterns found (the callers only build sets from the list)
_extract_keywords(text) ==
  {k \in Range(important_patterns) : Contains(k, Lower(text))}

\* find_custom_answer's score of one stored answer against the question
AnswerScore(question, options, ca) ==
  LET qn == _normalize_question(question)
      cn == _normalize_question(ca.question)
      qk == _extract_keywords(question)
      ck == IF ca.keywords # {} THEN ca.keywords ELSE _extract_keywords(ca.question)
      al == Lower(ca.answer)
      option_match ==
        \E k \in 1..Len(options) :
          Contains(al, Lower(options[k])) \/ StartsWith(Lower(options[k]), al)
  IN  (IF Contains(cn, qn) \/ Contains(qn, cn) THEN 50 ELSE 0)
      + 20 * Cardinality(qk \cap ck)
      + (IF options # <<>> /\ ca.answer # <<>>
           THEN (IF option_match THEN 10 ELSE 0 - 20)
           ELSE 0)

\* the first position holding the highest score (score > best_score keeps the first)
FirstMax(score) ==
  CHOOSE k \in DOMAIN score :
    /\ \A j \in DOMAIN score : score[j] <= score[k]
    /\ \A j \in DOMAIN score : j < k => score[j] < score[k]

\* a matcher that accepts a best score of 20
BestAnswer_Threshold20(answered, score, best) ==
  IF score[best] >= 20 THEN answered[best].answer ELSE <<>>

BestAnswer(answered, score, best) ==
  IF score[best] >= 30 THEN answered[best].answer ELSE <<>>

PickAnswer(answered, exact, score) ==
  IF exact # {} THEN answered[CHOOSE k \in exact : \A j \in exact : k <= j].answer
  ELSE BestAnswer(answered, score, FirstMax(score))

\* find_custom_answer: the first exact normalized match wins (entries before it do
\* not matter); else the first entry of the highest score, if that is at least 30
find_custom_answer(question, options, answered) ==
  IF answered = <<>> THEN <<>>
  ELSE PickAnswer(answered,
                  {k \in 1..Len(answered) :
                     _normalize_question(answered[k].question)
                       = _normalize_question(question)},
                  [k \in 1..Len(answered) |-> AnswerScore(question, options, answered[k])])

\* a save that files the question under the answered entries
save_pending_question_AsAnswered(st, question, options, job_info) ==
  LET qn == _normalize_question(question)
      known ==
        \/ \E k \in 1..Len(st.answered) :
             _normalize_question(st.answered[k].question) = qn
        \/ \E k \in 1..Len(st.pending) :
             _normalize_question(st.pending[k].question) = qn
      new_pending ==
        [question |-> question, answer |-> <<>>, options |-> options, job |-> job_info]
  IN  IF known THEN [store |-> st, saved |-> FALSE]
      ELSE [store |-> [st EXCEPT !.answered = Append(@, new_pending)], saved |-> TRUE]

\* a save that looks for the question among the pending entries only
save_pending_question_PendingOnly(st, question, options, job_info) ==
  LET qn == _normalize_question(question)
      known ==
        \E k \in 1..Len(st.pending) :
          _normalize_question(st.pending[k].question) = qn
      new_pending ==
        [question |-> question, answer |-> <<>>, options |-> options, job |-> job_info]
  IN  IF known THEN [store |-> st, saved |-> FALSE]
      ELSE [store |-> [st EXCEPT !.pending = Append(@, new_pending)], saved |-> TRUE]

\* save_pending_question on a readable and writable profile file: the new store
\* and the returned flag
save_pending_question(st, question, options, job_info) ==
  LET qn == _normalize_question(question)
      known ==
        \/ \E k \in 1..Len(st.answered) :
             _normalize_question(st.answered[k].question) = qn
        \/ \E k \in 1..Len(st.pending) :
             _normalize_question(st.pending[k].question) = qn
      new_pending ==
        [question |-> question, answer |-> <<>>, options |-> options, job |-> job_info]
  IN  IF known THEN [store |-> st, saved |-> FALSE]
      ELSE [store |-> [st EXCEPT !.pending = Append(@, new_pending)], saved |-> TRUE]

\* a promotion that leaves the promoted entries in the pending list
promote_pending_to_answered_KeepPending(st) ==
  LET moved == SelectSeq(st.pending, LAMBDA item : item.answer # <<>>)
      answered_item(item) ==
        [question |-> item.question, answer |-> item.answer,
         keywords |-> _extract_keywords(item.question), options |-> item.options]
  IN  [store |-> [st EXCEPT !.answered =
                      @ \o [k \in 1..Len(moved) |-> answered_item(moved[k])]],
       promoted |-> Len(moved)]

\* promote_pending_to_answered on a readable and writable profile file that
\* holds both lists: the new store and the number promoted
promote_pending_to_answered(st) ==
  LET moved == SelectSeq(st.pending, LAMBDA item : item.answer # <<>>)
      remaining_pending == SelectSeq(st.pending, LAMBDA item : item.answer = <<>>)
      answered_item(item) ==
        [question |-> item.question, answer |-> item.answer,
         keywords |-> _extract_keywords(item.question), options |-> item.options]
      promoted == Len(moved)
  IN  [store |-> IF promoted > 0
                   THEN [answered |-> st.answered
                                        \o [k \in 1..promoted |-> answered_item(moved[k])],
                         pending |-> remaining_pending]
                   ELSE st,
       promoted |-> promoted]

(***************************************************************************)
(* form_filler.py: the safe (EEO) select and radio strategies.             *)
(* A strategy is computed as the list of selection calls it issues, each   *)
(* a record [stage, opt, ok]: stage 1 exact, 2 yes/no equivalent, 3        *)
(* partial, 4 decline.  fail is the set of options (by position) whose     *)
(* selection call raises.                                                  *)
(***************************************************************************)
RECURSIVE SetToSeq(_)
SetToSeq(S) ==
  IF S = {} THEN <<>>
  ELSE LET m == CHOOSE x \in S : \A y \in S : x <= y
       IN  <<m>> \o SetToSeq(S \ {m})

\* the calls issued on the candidates, in order, up to the first that succeeds
RECURSIVE TryInOrder(_, _, _)
TryInOrder(stage, cands, fail) ==
  IF cands = <<>> THEN <<>>
  ELSE IF Head(cands) \in fail
    THEN <<[stage |-> stage, opt |-> Head(cands), ok |-> FALSE]>>
         \o TryInOrder(stage, Tail(cands), fail)
  ELSE <<[stage |-> stage, opt |-> Head(cands), ok |-> TRUE]>>

\* a loop that leaves with break when a call raises tries its first candidate only
FirstOnly(cands) == IF cands = <<>> THEN <<>> ELSE <<Head(cands)>>

Succeeded(calls) == calls # <<>> /\ calls[Len(calls)].ok

\* run the stages in order; a stage is entered only if no call has succeeded yet
RECURSIVE RunStages(_, _, _)
RunStages(stages, k, fail) ==
  IF k > Len(stages) THEN <<>>
  ELSE LET calls == TryInOrder(k, stages[k], fail)
       IN  IF Succeeded(calls) THEN calls
           ELSE calls \o RunStages(stages, k + 1, fail)

StrategyResult(calls) ==
  [ok |-> Succeeded(calls),
   sel |-> IF Succeeded(calls) THEN calls[Len(calls)].opt ELSE 0,
   stage |-> IF Succeeded(calls) THEN calls[Len(calls)].stage ELSE 0,
   calls |-> calls]

SelectPlaceholders == {<<"s","e","l","e","c","t">>, <<"s","e","l","e","c","t"," ","o","n","e">>, <<"-","-"," ","s","e","l","e","c","t"," ","-","-">>, <<"c","h","o","o","s","e">>}

\* _fill_eeo_select step 1: options equal to the value after lower().strip()
EeoExactCands(options, value) ==
  SetToSeq({k \in 1..Len(options) :
              Strip(Lower(options[k])) = Strip(Lower(value))})

\* _fill_eeo_select step 2: the yes/no equivalents
EeoYesNoCands(options, value, label) ==
  LET vl == Strip(Lower(value))
      ll == Lower(label)
      usable(o) == o # <<>> /\ o \notin SelectPlaceholders
      negative(o) ==
        StartsWith(o, <<"n","o","t"," ">>) \/ StartsWith(o, <<"n","o","n">>) \/ Contains(<<"n","o","t"," ">>, o)
      yes(o) ==
        /\ ~ContainsAny(<<<<"d","e","c","l","i","n","e">>, <<"w","i","s","h">>, <<"p","r","e","f","e","r"," ","n","o","t">>, <<"c","h","o","o","s","e"," ","n","o","t">>>>, o)
        /\ ~negative(o)
        /\ Contains(<<"h","i","s","p","a","n","i","c">>, ll) \/ Contains(<<"l","a","t","i","n","o">>, ll)
        /\ Contains(<<"h","i","s","p","a","n","i","c">>, o) \/ Contains(<<"l","a","t","i","n","o">>, o)
      no(o) ==
        /\ negative(o)
        /\ ~ContainsAny(<<<<"d","e","c","l","i","n","e">>, <<"w","i","s","h">>, <<"p","r","e","f","e","r">>>>, o)
  IN  IF vl = <<"y","e","s">>
        THEN SetToSeq({k \in 1..Len(options) :
                         usable(Lower(options[k])) /\ yes(Lower(options[k]))})
      ELSE IF vl = <<"n","o">>
        THEN SetToSeq({k \in 1..Len(options) :
                         usable(Lower(options[k])) /\ no(Lower(options[k]))})
      ELSE <<>>

\* _fill_eeo_select step 3: options containing the value
EeoPartialCands(options, value) ==
  SetToSeq({k \in 1..Len(options) :
              Contains(Strip(Lower(value)), Lower(options[k]))})

\* _fill_eeo_select step 4: for each decline phrase in order, the options containing it
RECURSIVE EeoDeclineCands(_, _)
EeoDeclineCands(options, d) ==
  IF d > Len(EEO_DECLINE_OPTIONS) THEN <<>>
  ELSE SetToSeq({k \in 1..Len(options) :
                   Contains(EEO_DECLINE_OPTIONS[d], Lower(options[k]))})
       \o EeoDeclineCands(options, d + 1)

\* a strategy that falls back to the decline options before the partial match
EeoSelectStages_DeclineBeforePartial(options, value, label) ==
  << FirstOnly(EeoExactCands(options, value)),
     EeoYesNoCands(options, value, label),
     EeoDeclineCands(options, 1),
     FirstOnly(EeoPartialCands(options, value)) >>

\* the order in which _fill_eeo_select runs its steps; steps 1 and 3 break on a
\* raising call, steps 2 and 4 continue with the next candidate
EeoSelectStages(options, value, label) ==
  << FirstOnly(EeoExactCands(options, value)),
     EeoYesNoCands(options, value, label),
     FirstOnly(EeoPartialCands(options, value)),
     EeoDeclineCands(options, 1) >>

_fill_eeo_select(options, value, label, fail) ==
  StrategyResult(RunStages(EeoSelectStages(options, value, label), 1, fail))

\* _select_radio_option: radio_options is a sequence of [value, label]; a member in
\* fail raises on check() and on the script click that follows it
RadioExactCands(radio_options, value_lower) ==
  SetToSeq({k \in 1..Len(radio_options) :
              \/ Strip(Lower(radio_options[k].value)) = value_lower
              \/ Strip(Lower(radio_options[k].label)) = value_lower})

RadioYesNoCands(radio_options, value_lower) ==
  LET combined(r) == Lower(r.value \o <<" ">> \o r.label)
  IN  IF value_lower = <<"y","e","s">>
        THEN SetToSeq({k \in 1..Len(radio_options) :
                         ContainsAny(<<<<"y","e","s">>, <<"t","r","u","e">>, <<"1">>>>,
                                     combined(radio_options[k]))})
      ELSE IF value_lower = <<"n","o">>
        THEN SetToSeq({k \in 1..Len(radio_options) :
                         /\ ContainsAny(<<<<"n","o">>, <<"f","a","l","s","e">>, <<"0">>>>,
                                        combined(radio_options[k]))
                         /\ ~ContainsAny(<<<<"d","e","c","l","i","n","e">>, <<"w","i","s","h">>, <<"p","r","e","f","e","r"," ","n","o","t">>>>,
                                         combined(radio_options[k]))})
      ELSE <<>>

RadioPartialCands(radio_options, value_lower) ==
  SetToSeq({k \in 1..Len(radio_options) :
              \/ Contains(value_lower, Lower(radio_options[k].label))
              \/ Contains(value_lower, Lower(radio_options[k].value))})

RECURSIVE RadioDeclineCands(_, _)
RadioDeclineCands(radio_options, d) ==
  IF d > Len(EEO_DECLINE_OPTIONS) THEN <<>>
  ELSE SetToSeq({k \in 1..Len(radio_options) :
                   \/ Contains(EEO_DECLINE_OPTIONS[d], Lower(radio_options[k].label))
                   \/ Contains(EEO_DECLINE_OPTIONS[d], Lower(radio_options[k].value))})
       \o RadioDeclineCands(radio_options, d + 1)

\* every step of _select_radio_option continues with the next member on a raise
RadioStages(radio_options, value_lower) ==
  << RadioExactCands(radio_options, value_lower),
     RadioYesNoCands(radio_options, value_lower),
     RadioPartialCands(radio_options, value_lower),
     RadioDeclineCands(radio_options, 1) >>

_select_radio_option(radio_options, value_lower, fail) ==
  StrategyResult(RunStages(RadioStages(radio_options, value_lower), 1, fail))

(***************************************************************************)
(* form_filler.py: choosing the value of a field.                          *)
(* A field is a record [label, name, id, field_type, input_type, options,  *)
(* is_required, selector, ...]; a missing string is the empty text.        *)
(***************************************************************************)
visa_values ==
  <<<<"h","1","b">>, <<"h","-","1","b">>, <<"o","p","t">>, <<"f","1">>, <<"f","-","1">>, <<"g","r","e","e","n"," ","c","a","r","d">>, <<"l","1">>, <<"l","-","1">>, <<"t","n">>,
    <<"o","1">>, <<"o","-","1">>>>

\* the salary guard of _get_value_for_field: the value looks like an amount
LooksLikeSalary(value) ==
  LET clean_val == SelectSeq(value, LAMBDA c : c # "," /\ c # "$")
  IN  /\ \E k \in 1..Len(value) : IsDigit(value[k])
      /\ (\E k \in 1..Len(value) : value[k] = ",") \/ Len(value) > 5
      /\ clean_val # <<>>
      /\ \A k \in 1..Len(clean_val) : IsDigit(clean_val[k])
      /\ StrToInt(clean_val) > 10000

\* a resolver that keeps visa values whatever the field: the salary guard only
ValidateValue_NoVisaGuard(field, value) ==
  LET label_lower == Lower(field.label)
      is_visa_value == ContainsAny(visa_values, Lower(value))
      is_visa_field ==
        field.field_type \in {"visa_status", "authorized_to_work", "require_sponsorship"}
      is_visa_label ==
        ContainsAny(<<<<"v","i","s","a">>, <<"i","m","m","i","g","r","a","t","i","o","n">>, <<"s","p","o","n","s","o","r","s","h","i","p">>, <<"a","u","t","h","o","r","i","z","a","t","i","o","n">>,
                      <<"w","o","r","k"," ","s","t","a","t","u","s">>>>, label_lower)
      is_eeo_label ==
        ContainsAny(<<<<"d","i","s","a","b","i","l","i","t","y">>, <<"v","e","t","e","r","a","n">>, <<"g","e","n","d","e","r">>, <<"r","a","c","e">>, <<"e","t","h","n","i","c","i","t","y">>,
                      <<"h","i","s","p","a","n","i","c">>, <<"d","o"," ","n","o","t"," ","w","a","n","t"," ","t","o"," ","a","n","s","w","e","r">>, <<"d","e","c","l","i","n","e">>,
                      <<"p","r","e","f","e","r"," ","n","o","t">>, <<"s","e","l","f","-","i","d","e","n","t","i","f","y">>>>, label_lower)
      salary_type ==
        field.field_type \in {"expected_salary", "salary_range_min", "salary_range_max"}
      salary_label ==
        ContainsAny(<<<<"s","a","l","a","r","y">>, <<"c","o","m","p","e","n","s","a","t","i","o","n">>, <<"p","a","y">>, <<"w","a","g","e">>>>, label_lower)
  IN  IF value = <<>> THEN <<>>
      ELSE IF ~salary_type /\ ~salary_label /\ LooksLikeSalary(value) THEN <<>>
      ELSE value

\* the visa and salary guards of _get_value_for_field on a profile value
ValidateValue(field, value) ==
  LET label_lower == Lower(field.label)
      is_visa_value == ContainsAny(visa_values, Lower(value))
      is_visa_field ==
        field.field_type \in {"visa_status", "authorized_to_work", "require_sponsorship"}
      is_visa_label ==
        ContainsAny(<<<<"v","i","s","a">>, <<"i","m","m","i","g","r","a","t","i","o","n">>, <<"s","p","o","n","s","o","r","s","h","i","p">>, <<"a","u","t","h","o","r","i","z","a","t","i","o","n">>,
                      <<"w","o","r","k"," ","s","t","a","t","u","s">>>>, label_lower)
      is_eeo_label ==
        ContainsAny(<<<<"d","i","s","a","b","i","l","i","t","y">>, <<"v","e","t","e","r","a","n">>, <<"g","e","n","d","e","r">>, <<"r","a","c","e">>, <<"e","t","h","n","i","c","i","t","y">>,
                      <<"h","i","s","p","a","n","i","c">>, <<"d","o"," ","n","o","t"," ","w","a","n","t"," ","t","o"," ","a","n","s","w","e","r">>, <<"d","e","c","l","i","n","e">>,
                      <<"p","r","e","f","e","r"," ","n","o","t">>, <<"s","e","l","f","-","i","d","e","n","t","i","f","y">>>>, label_lower)
      salary_type ==
        field.field_type \in {"expected_salary", "salary_range_min", "salary_range_max"}
      salary_label ==
        ContainsAny(<<<<"s","a","l","a","r","y">>, <<"c","o","m","p","e","n","s","a","t","i","o","n">>, <<"p","a","y">>, <<"w","a","g","e">>>>, label_lower)
  IN  IF value = <<>> THEN <<>>
      ELSE IF is_visa_value /\ (~is_visa_field \/ is_eeo_label) /\ ~is_visa_label
        THEN <<>>
      ELSE IF ~salary_type /\ ~salary_label /\ LooksLikeSalary(value) THEN <<>>
      ELSE value

\* the profile value after the visa and salary guards
ValidatedProfileValue(field, p) ==
  ValidateValue(field, get_field_value(p, field.field_type))

skip_llm_types ==
  {"first_name", "last_name", "email", "phone", "address", "zip_code", "linkedin",
   "github", "portfolio", "website", "resume", "cover_letter"}

_check_custom_answer(field, answered) ==
  IF answered = <<>> THEN <<>>
  ELSE find_custom_answer(field.label, field.options, answered)

Resolved(v, src, n) == [value |-> v, source |-> src, count |-> n]

\* the file-input branch of _get_value_for_field
FileValue(field, p, count) ==
  LET label_lower == Lower(field.label)
      name_lower == Lower(field.name)
      is_cover_letter ==
        \/ Contains(<<"c","o","v","e","r">>, label_lower) \/ Contains(<<"l","e","t","t","e","r">>, label_lower)
        \/ Contains(<<"c","o","v","e","r">>, name_lower) \/ Contains(<<"l","e","t","t","e","r">>, name_lower)
      is_resume ==
        \/ Contains(<<"r","e","s","u","m","e">>, label_lower) \/ Contains(<<"c","v">>, label_lower)
        \/ Contains(<<"r","e","s","u","m","e">>, name_lower) \/ Contains(<<"c","v">>, name_lower)
  IN  IF is_cover_letter THEN Resolved(get_field_value(p, "cover_letter"), "file", count)
      ELSE IF is_resume /\ p.resume_path # <<>>
        THEN Resolved(p.resume_path, "file", count)
      ELSE IF count + 1 = 1 THEN Resolved(p.resume_path, "file", count + 1)
      ELSE Resolved(<<>>, "file", count + 1)

\* _get_value_for_field once no profile value, default answer or custom answer
\* was found: file inputs, then the LLM helper
ResolveFallback(field, p, llm_available, llm_answer, count) ==
  IF field.input_type = "file" THEN FileValue(field, p, count)
  ELSE IF llm_available /\ field.field_type \notin skip_llm_types /\ llm_answer # <<>>
    THEN Resolved(llm_answer, "llm", count)
  ELSE Resolved(<<>>, "none", count)

ResolveCustom(field, p, llm_available, llm_answer, count, custom_answer) ==
  IF custom_answer # <<>> THEN Resolved(custom_answer, "custom", count)
  ELSE ResolveFallback(field, p, llm_available, llm_answer, count)

ResolveProfile(field, p, answered, llm_available, llm_answer, count, value) ==
  IF value # <<>> THEN Resolved(value, "profile", count)
  ELSE IF field.field_type = "how_did_you_hear"
    THEN Resolved(p.default_how_did_you_hear, "default", count)
  ELSE ResolveCustom(field, p, llm_available, llm_answer, count,
                     _check_custom_answer(field, answered))

\* _get_value_for_field: the value, where it came from, and the file-input counter.
\* llm_answer is what answer_form_field returns when it is asked (empty for None).
_get_value_for_field(field, p, answered, llm_available, llm_answer, count) ==
  ResolveProfile(field, p, answered, llm_available, llm_answer, count,
                 ValidatedProfileValue(field, p))

(***************************************************************************)
(* form_filler.py: recording an unanswered question, custom dropdowns.     *)
(***************************************************************************)
\* the members of standard_fields that FieldType holds
standard_fields ==
  {"first_name", "last_name", "full_name", "email", "phone", "address", "city",
   "state", "zip_code", "country", "linkedin", "github", "portfolio", "resume",
   "cover_letter", "current_company", "current_title", "university",
   "highest_degree", "years_of_experience", "expected_salary", "start_date",
   "authorized_to_work", "require_sponsorship", "visa_status", "how_did_you_hear"}

\* a recorder that does not leave out the standard profile fields
_save_unanswered_question_AnyType(st, field, options, job_info) ==
  IF is_eeo_field(field.field_type) THEN [store |-> st, saved |-> FALSE]
  ELSE save_pending_question(st, field.label,
                             IF options # <<>> THEN options ELSE field.options,
                             job_info)

\* _save_unanswered_question: the store afterwards and whether an entry was added
_save_unanswered_question(st, field, options, job_info) ==
  IF is_eeo_field(field.field_type) THEN [store |-> st, saved |-> FALSE]
  ELSE IF field.field_type \in standard_fields THEN [store |-> st, saved |-> FALSE]
  ELSE save_pending_question(st, field.label,
                             IF options # <<>> THEN options ELSE field.options,
                             job_info)

\* re.search(rf'\b{value}\b', text): value occurs in text between word boundaries
WordBoundaryMatch(value, text) ==
  \E i \in 1..(Len(text) - Len(value) + 1) :
    /\ SubSeq(text, i, i + Len(value) - 1) = value
    /\ IsWordChar(value[1]) # (i > 1 /\ IsWordChar(text[i - 1]))
    /\ IsWordChar(value[Len(value)])
         # (i + Len(value) <= Len(text) /\ IsWordChar(text[i + Len(value)]))

\* the score _fill_eeo_text_dropdown gives an option text for a non-empty value
DropdownScore(opt_text, value_lower) ==
  LET opt_lower == Lower(opt_text)
  IN  IF opt_lower = value_lower THEN 100
      ELSE IF StartsWith(opt_lower, value_lower) THEN 80
      ELSE IF \/ Contains(<<" ">> \o value_lower, <<" ">> \o opt_lower)
              \/ StartsWith(opt_lower, value_lower \o <<",">>) THEN 70
      ELSE IF value_lower = <<"y","e","s">> /\ StartsWith(opt_lower, <<"y","e","s">>) THEN 75
      ELSE IF value_lower = <<"n","o">> /\ StartsWith(opt_lower, <<"n","o">>) THEN 75
      ELSE IF Contains(value_lower, opt_lower) /\ WordBoundaryMatch(value_lower, opt_lower)
        THEN 50
      ELSE 0

DropdownDeclineCands(visible_options) ==
  SetToSeq({k \in 1..Len(visible_options) :
              ContainsAny(<<<<"d","e","c","l","i","n","e">>, <<"p","r","e","f","e","r"," ","n","o","t">>, <<"d","o","n","'","t"," ","w","i","s","h">>, <<"c","h","o","o","s","e"," ","n","o","t">>>>,
                          Lower(visible_options[k]))})

\* the click on the best option, when its score is above 0
BestCalls(score, fail, best_match) ==
  IF score[best_match] > 0 THEN TryInOrder(1, <<best_match>>, fail) ELSE <<>>

\* the decline options are tried when the best option was not clicked
DropdownCalls(visible_options, fail, best_calls) ==
  IF Succeeded(best_calls) THEN best_calls
  ELSE best_calls \o TryInOrder(2, DropdownDeclineCands(visible_options), fail)

DropdownResult(calls) ==
  [ok |-> Succeeded(calls),
   sel |-> IF Succeeded(calls) THEN calls[Len(calls)].opt ELSE 0,
   save |-> ~Succeeded(calls),
   calls |-> calls]

SelectBest(visible_options, fail, score) ==
  DropdownResult(DropdownCalls(visible_options, fail,
                               BestCalls(score, fail, FirstMax(score))))

\* _fill_eeo_text_dropdown.  visible_options are the option texts shown after the
\* click; opened is FALSE when re-acquiring, focusing, clicking or closing raises;
\* fail is the set of options whose click raises.  save tells whether
\* _save_unanswered_question is called with the option texts.
_fill_eeo_text_dropdown(field, value, visible_options, opened, fail) ==
  IF Strip(Lower(value)) = <<>> \/ ~opened \/ visible_options = <<>>
    THEN [ok |-> FALSE, sel |-> 0, save |-> FALSE, calls |-> <<>>]
  ELSE SelectBest(visible_options, fail,
                  [k \in 1..Len(visible_options) |->
                     DropdownScore(visible_options[k], Strip(Lower(value)))])

(***************************************************************************)
(* form_filler.py: filling one field.                                      *)
(* The browser's part of an attempt is the record e:                       *)
(*   found      _reacquire_element or _find_element_by_label gave a handle *)
(*   visible    the handle is visible                                      *)
(*   opened     the custom dropdown could be opened and closed             *)
(*   fail       the options whose selection call raises                    *)
(*   auto_ok    _fill_autocomplete_field returned True                     *)
(*   text_ok    the plain focus/click/fill sequence did not raise          *)
(*   llm_answer the answer of the LLM helper when it is asked              *)
(* A fill result is [success, wrote, newval, how, save, save_options]:     *)
(* wrote tells whether the control's value was set, newval to what, save   *)
(* whether _save_unanswered_question was called.                           *)
(***************************************************************************)
NoWrite(save, save_options) ==
  [success |-> FALSE, wrote |-> FALSE, newval |-> <<>>, how |-> "none",
   save |-> save, save_options |-> save_options]

Wrote(newval, how, save, save_options) ==
  [success |-> TRUE, wrote |-> TRUE, newval |-> newval, how |-> how,
   save |-> save, save_options |-> save_options]

is_custom_dropdown(field) ==
  \/ is_eeo_field(field.field_type) \/ is_eeo_keyword_in_text(field.label)
  \/ field.field_type \in {"authorized_to_work", "require_sponsorship", "how_did_you_hear"}
  \/ ContainsAny(<<<<"a","u","t","h","o","r","i","z","e","d">>, <<"s","p","o","n","s","o","r","s","h","i","p">>, <<"v","i","s","a">>, <<"l","e","g","a","l","l","y">>, <<"w","o","r","k","e","d"," ","f","o","r">>,
                   <<"p","r","e","v","i","o","u","s","l","y"," ","w","o","r","k","e","d">>, <<"c","u","r","r","e","n","t","l","y"," ","w","o","r","k">>, <<"h","o","w"," ","d","i","d"," ","y","o","u"," ","h","e","a","r">>,
                   <<"h","e","a","r"," ","a","b","o","u","t">>, <<"r","e","f","e","r","r","a","l"," ","s","o","u","r","c","e">>>>, Lower(field.label))

is_autocomplete_candidate(field) ==
  \/ field.field_type \in {"city", "state", "country", "university", "current_company",
                           "address"}
  \/ ContainsAny(<<<<"l","o","c","a","t","i","o","n">>, <<"c","i","t","y">>, <<"s","t","a","t","e">>, <<"s","c","h","o","o","l">>, <<"u","n","i","v","e","r","s","i","t","y">>,
                   <<"c","o","l","l","e","g","e">>, <<"c","o","m","p","a","n","y">>, <<"e","m","p","l","o","y","e","r">>, <<"i","n","s","t","i","t","u","t","i","o","n">>>>,
                 Lower(field.label))

\* _fill_text after the custom dropdown gave dd: autocomplete, then the plain fill
TextOutcome(field, value, e, dd) ==
  IF dd.ok THEN Wrote(field.dd[dd.sel], "option", FALSE, <<>>)
  ELSE IF is_autocomplete_candidate(field) /\ e.auto_ok
    THEN Wrote(value, "autocomplete", dd.save, IF dd.save THEN field.dd ELSE <<>>)
  ELSE IF e.text_ok
    THEN Wrote(value, "text", dd.save, IF dd.save THEN field.dd ELSE <<>>)
  ELSE NoWrite(dd.save, IF dd.save THEN field.dd ELSE <<>>)

\* _fill_text; the phone fallback is taken to find no alternative input
_fill_text(field, value, e) ==
  IF ~e.visible THEN NoWrite(FALSE, <<>>)
  ELSE TextOutcome(field, value, e,
                   IF is_custom_dropdown(field)
                     THEN _fill_eeo_text_dropdown(field, value, field.dd, e.opened, e.fail)
                   ELSE [ok |-> FALSE, sel |-> 0, save |-> FALSE, calls |-> <<>>])

SelectOutcome(options, sel) ==
  IF sel.ok THEN Wrote(options[sel.sel], "select", FALSE, <<>>)
  ELSE NoWrite(FALSE, <<>>)

\* _fill_file: without a value the profile's resume is uploaded; a path other than
\* the resume path (which get_absolute_path returns only if the file exists) may
\* not exist, and set_input_files may raise
_fill_file(value, resume_path, e) ==
  LET path == IF value = <<>> THEN resume_path ELSE value
  IN  IF path = <<>> THEN NoWrite(FALSE, <<>>)
      ELSE IF path # resume_path /\ ~e.exists THEN NoWrite(FALSE, <<>>)
      ELSE IF e.upload_ok THEN Wrote(path, "upload", FALSE, <<>>)
      ELSE NoWrite(FALSE, <<>>)

\* _fill_by_type for the input types of the modelled documents: file inputs, EEO
\* selects and text-like inputs
_fill_by_type(field, value, e, resume_path) ==
  IF field.input_type = "file" THEN _fill_file(value, resume_path, e)
  ELSE IF /\ field.input_type = "select"
          /\ is_eeo_field(field.field_type) \/ is_eeo_keyword_in_text(field.label)
    THEN SelectOutcome(field.options,
                       _fill_eeo_select(field.options, value, field.label, e.fail))
  ELSE _fill_text(field, value, e)

\* the FilledField of fill_field with the write made to the control (wrote, newval,
\* how), whether a fill was issued on a handle, the store and the file-input
\* counter afterwards
FilledField(field, gv, r, issued, sv) ==
  [filled_value |-> gv.value, source |-> gv.source, count |-> gv.count,
   is_high_risk |-> is_high_risk_field(field.field_type),
   success |-> r.success, wrote |-> r.wrote, newval |-> r.newval, how |-> r.how,
   issued |-> issued, store |-> sv.store, saved |-> sv.saved]

\* fill_field after _fill_by_type returned r
FillAttempt(field, st, job_info, gv, found, r) ==
  FilledField(field, gv, r, found,
              IF r.save THEN _save_unanswered_question(st, field, r.save_options, job_info)
              ELSE [store |-> st, saved |-> FALSE])

\* fill_field after _get_value_for_field returned gv
FillWithValue(field, st, job_info, e, gv, resume_path) ==
  IF gv.value = <<>> /\ field.field_type # "unknown"
    THEN FilledField(field, gv, [NoWrite(FALSE, <<>>) EXCEPT !.how = "novalue"], FALSE,
                     _save_unanswered_question(st, field, <<>>, job_info))
  ELSE FillAttempt(field, st, job_info, gv, e.found,
                   IF e.found THEN _fill_by_type(field, gv.value, e, resume_path)
                   ELSE NoWrite(FALSE, <<>>))

fill_field(field, p, st, answered, llm_available, job_info, count, e) ==
  FillWithValue(field, st, job_info, e,
                _get_value_for_field(field, p, answered, llm_available, e.llm_answer,
                                     count),
                p.resume_path)

(***************************************************************************)
(* The documents, profiles and stores the runs are explored over.          *)
(* A control is a field as extract_form_fields returns it, with the option *)
(* texts its custom dropdown shows (dd) and whether the page shows it only *)
(* after the Hispanic/Latino question was answered "Not Hispanic or        *)
(* Latino" (dyn).  field_type is what FIELD_PATTERNS assigns to the        *)
(* control's label, name and id.                                           *)
(***************************************************************************)
MaxControls == 3
MaxRerunControls == 2
MaxRuns == 2

Control(label, name, id, field_type, input_type, options, is_required, dd, dyn) ==
  [label |-> label, name |-> name, id |-> id, field_type |-> field_type,
   input_type |-> input_type, options |-> options, is_required |-> is_required,
   dd |-> dd, dyn |-> dyn]

Catalog ==
  << Control(<<"F","i","r","s","t"," ","N","a","m","e">>, <<"f","i","r","s","t","_","n","a","m","e">>, <<"f","i","r","s","t","_","n","a","m","e">>, "first_name", "text",
             <<>>, TRUE, <<>>, FALSE),
     Control(<<"C","i","t","y">>, <<>>, <<"c","i","t","y">>, "city", "text", <<>>, TRUE, <<>>, FALSE),
     Control(<<"C","i","t","y">>, <<>>, <<"c","i","t","y","2">>, "city", "text", <<>>, FALSE, <<>>, FALSE),
     Control(<<"A","r","e"," ","y","o","u"," ","H","i","s","p","a","n","i","c"," ","o","r"," ","L","a","t","i","n","o","?">>, <<>>, <<"q","1">>, "hispanic_latino", "select",
             <<<<"S","e","l","e","c","t",".",".",".">>, <<"H","i","s","p","a","n","i","c"," ","o","r"," ","L","a","t","i","n","o">>, <<"N","o","t"," ","H","i","s","p","a","n","i","c"," ","o","r"," ","L","a","t","i","n","o">>,
               <<"D","e","c","l","i","n","e"," ","t","o"," ","s","e","l","f","-","i","d","e","n","t","i","f","y">>>>, FALSE, <<>>, FALSE),
     Control(<<"G","e","n","d","e","r">>, <<>>, <<"g","1">>, "gender", "select",
             <<<<"S","e","l","e","c","t">>, <<"M","a","l","e">>, <<"F","e","m","a","l","e">>, <<"D","e","c","l","i","n","e"," ","t","o"," ","s","e","l","f","-","i","d","e","n","t","i","f","y">>>>,
             FALSE, <<>>, FALSE),
     Control(<<"P","l","e","a","s","e"," ","i","d","e","n","t","i","f","y"," ","y","o","u","r"," ","r","a","c","e">>, <<>>, <<"q","_","r","a","c","e">>, "unknown", "text",
             <<>>, TRUE, <<<<"W","h","i","t","e">>, <<"T","w","o"," ","o","r"," ","M","o","r","e"," ","R","a","c","e","s">>>>, TRUE),
     Control(<<"P","l","e","a","s","e"," ","i","d","e","n","t","i","f","y"," ","y","o","u","r"," ","r","a","c","e">>, <<"r","a","c","e">>, <<>>, "race", "select",
             <<<<"S","e","l","e","c","t">>, <<"A","s","i","a","n">>, <<"W","h","i","t","e">>, <<"D","e","c","l","i","n","e"," ","t","o"," ","s","e","l","f","-","i","d","e","n","t","i","f","y">>>>,
             FALSE, <<>>, TRUE) >>

\* _build_selector for a control with an id or a name
_build_selector(c) ==
  IF c.id # <<>>
    THEN IF IsDigit(Head(c.id)) THEN <<"[","i","d","=","\"">> \o c.id \o <<"\"","]">> ELSE <<"#">> \o c.id
  ELSE <<"[","n","a","m","e","=","\"">> \o c.name \o <<"\"","]">>

\* the documents: up to n catalog controls in catalog order, at least
\* one shown from the start, conditional controls only with their trigger
Docs(n) ==
  {d \in SUBSET (1..Len(Catalog)) :
     /\ Cardinality(d) \in 1..n
     /\ \E k \in d : ~Catalog[k].dyn
     /\ (\E k \in d : Catalog[k].dyn)
          => \E k \in d : Catalog[k].field_type = "hispanic_latino"}

EmptyProfile ==
  [first_name |-> <<>>, last_name |-> <<>>, full_name |-> <<>>, email |-> <<>>,
   phone |-> <<>>, linkedin |-> <<>>, github |-> <<>>, portfolio |-> <<>>,
   address |-> <<>>, city |-> <<>>, state |-> <<>>, zip_code |-> <<>>,
   country |-> <<>>, willing_to_relocate |-> FALSE, authorized_to_work |-> TRUE,
   require_sponsorship |-> FALSE, visa_status |-> <<>>, years_of_experience |-> 0,
   current_company |-> <<>>, current_title |-> <<>>, highest_degree |-> <<>>,
   field_of_study |-> <<>>, university |-> <<>>, graduation_year |-> 0,
   expected_salary |-> <<>>, salary_range_min |-> <<>>, salary_range_max |-> <<>>,
   start_date |-> <<>>, available_immediately |-> FALSE, gender |-> <<>>,
   race |-> <<>>, ethnicity |-> <<>>, hispanic_latino |-> <<>>,
   veteran_status |-> <<>>, disability_status |-> <<>>, resume_path |-> <<>>,
   default_how_did_you_hear |-> <<>>]

ProfileSparse ==
  [EmptyProfile EXCEPT !.first_name = <<"A","n","n">>, !.hispanic_latino = <<"N","o">>]

ProfileFull ==
  [ProfileSparse EXCEPT !.city = <<"O","s","l","o">>, !.gender = <<"M","a","l","e">>, !.race = <<"A","s","i","a","n">>]

JobInfo == <<"A","c","m","e"," ","-"," ","E","n","g","i","n","e","e","r">>

\* an answered custom answer as load_custom_answers returns it
Answered(question, answer) ==
  [question |-> question, answer |-> answer, options |-> <<>>,
   keywords |-> _extract_keywords(question)]

\* the runs explored: a full profile with one answered custom question and no
\* LLM helper, and a sparse profile with the LLM helper (which may answer nothing)
Scenarios ==
  << [profile |-> ProfileFull, answered |-> <<Answered(<<"R","a","c","e">>, <<"A","s","i","a","n">>)>>,
      llm_available |-> FALSE],
     [profile |-> ProfileSparse, answered |-> <<>>, llm_available |-> TRUE] >>

LlmAnswers == {<<>>, <<"W","h","i","t","e">>}

(***************************************************************************)
(* The state of one FormFiller working through process_job.                *)
(***************************************************************************)
VARIABLES
  doc,                 \* the controls of the document (positions in Catalog)
  scenario,            \* the profile, custom answers and LLM helper in use
  shown,               \* the controls the page currently shows
  value,               \* the live value of each control
  store,               \* custom_answers of profile.yaml: answered and pending
  pc,                  \* where process_job stands
  run,                 \* how many times fill_all_fields was started
  fields,              \* fill_all_fields: the extracted fields
  idx,                 \* fill_all_fields: position in fields
  pass_num,            \* _fill_dynamic_fields: re-extractions made
  dynamic_fields,      \* _fill_dynamic_fields: the new fields of the pass
  didx,                \* _fill_dynamic_fields: position in dynamic_fields
  results,             \* the FilledField list
  ridx,                \* process_job: position in the retry loop
  filled_labels,       \* field_key -> success status
  first_name_element,  \* the first-name control once filled, 0 for None
  first_name_value,
  _file_input_count,
  log,                 \* history: one entry per call of fill_field in this run
  prev_clean,          \* history: the run before this one left every shown
                       \* control with a successful result
  call,                \* a strategy called on its own: its name and arguments
  ret                  \* what that call returned

(***************************************************************************)
(* The state of process_job around the fill: the ApplicationLogger, the    *)
(* page the user may submit, and wait_for_url_change.                      *)
(***************************************************************************)
VARIABLES
  logger,              \* ApplicationLogger: applications and _current_app (<<>>
                       \* for None)
  page_url,            \* the URL the page shows
  elapsed,             \* wait_for_url_change: seconds waited
  polls,               \* history: the reads of page.url made by this wait
  returns              \* history: how each call of process_job ended

jobvars == <<logger, page_url, elapsed, polls, returns>>

vars ==
  <<doc, scenario, shown, value, store, pc, run, fields, idx, pass_num,
    dynamic_fields, didx, results, ridx, filled_labels, first_name_element,
    first_name_value, _file_input_count, log, prev_clean, call, ret, logger,
    page_url, elapsed, polls, returns>>

NoCall == [op |-> "none"]

\* a reconciler allowed one pass more
max_passes_OneMore == 2 + 1

\* the default of _fill_dynamic_fields' parameter max_passes
max_passes == 2

Sc == Scenarios[scenario]

\* the FormField extract_form_fields builds for control k
FieldOf(k) == Catalog[k] @@ [selector |-> _build_selector(Catalog[k]), ctl |-> k]

\* f"{field.label}_{field.field_type.value}"; no type name ends in "_" followed by
\* another type name, so the pair identifies the string
field_key(field) == <<field.label, field.field_type>>

\* extract_form_fields: the shown controls in document order
extract_form_fields == SetToSeq(shown)

FailSets(n) == SUBSET (1..n)

\* what the browser and the LLM helper may do during one fill_field call
Envs(field) ==
  LET file == field.input_type = "file"
      text == field.input_type \notin {"select", "file"}
      dropdown == text /\ is_custom_dropdown(field)
  IN  [found : BOOLEAN,
       exists : IF file THEN BOOLEAN ELSE {TRUE},
       upload_ok : IF file THEN BOOLEAN ELSE {TRUE},
       visible : IF text THEN BOOLEAN ELSE {TRUE},
       opened : IF dropdown THEN BOOLEAN ELSE {TRUE},
       fail : IF text THEN (IF dropdown THEN FailSets(Len(field.dd)) ELSE {{}})
              ELSE IF file THEN {{}}
              ELSE FailSets(Len(field.options)),
       auto_ok : IF text /\ is_autocomplete_candidate(field) THEN BOOLEAN ELSE {FALSE},
       text_ok : IF text THEN BOOLEAN ELSE {TRUE},
       llm_answer : IF Sc.llm_available THEN LlmAnswers ELSE {<<>>}]

\* a FormFiller constructed for a job, before process_job extracts the fields
InitOn(documents) ==
  /\ doc \in documents
  /\ scenario \in 1..Len(Scenarios)
  /\ shown = {k \in doc : ~Catalog[k].dyn}
  /\ value = [k \in doc |-> <<>>]
  /\ store = [answered |-> Scenarios[scenario].answered, pending |-> <<>>]
  /\ pc = "idle"
  /\ run = 0
  /\ fields = <<>>
  /\ idx = 1
  /\ pass_num = 0
  /\ dynamic_fields = <<>>
  /\ didx = 1
  /\ results = <<>>
  /\ ridx = 1
  /\ filled_labels = <<>>
  /\ first_name_element = 0
  /\ first_name_value = <<>>
  /\ _file_input_count = 0
  /\ log = <<>>
  /\ prev_clean = FALSE
  /\ call = NoCall
  /\ ret = NoCall
  /\ logger = [applications |-> <<>>, _current_app |-> <<>>]
  /\ page_url = "form"
  /\ elapsed = 0
  /\ polls = 0
  /\ returns = <<>>

Init == InitOn(Docs(MaxControls))

InitRerun == InitOn(Docs(MaxRerunControls))

(***************************************************************************)
(* fill_all_fields, _fill_dynamic_fields and the retry loop of process_job *)
(***************************************************************************)
\* a tracking that records failures only
Mark_FailuresOnly(fl, key, success) ==
  IF key \notin DOMAIN fl
    THEN [x \in DOMAIN fl \cup {key} |-> IF x = key THEN FALSE ELSE fl[x]]
  ELSE fl

\* filled_labels after a result for key: True on success, False only if unmarked
Mark(fl, key, success) ==
  IF success THEN [x \in DOMAIN fl \cup {key} |-> IF x = key THEN TRUE ELSE fl[x]]
  ELSE IF key \notin DOMAIN fl
    THEN [x \in DOMAIN fl \cup {key} |-> IF x = key THEN FALSE ELSE fl[x]]
  ELSE fl

Prior(fl, key) ==
  IF key \notin DOMAIN fl THEN "unmarked" ELSE IF fl[key] THEN "succeeded" ELSE "failed"

ApplyWrite(val, k, r) == IF r.wrote THEN [val EXCEPT ![k] = r.newval] ELSE val

\* the page may clear a filled first-name control when another control is written
ClobberChoices(val, k, r) ==
  IF r.wrote /\ \E c \in shown : c # k /\ Catalog[c].field_type = "first_name"
                                  /\ val[c] # <<>>
    THEN BOOLEAN ELSE {FALSE}

Clobber(val, k, clobber) ==
  IF clobber
    THEN [c \in DOMAIN val |->
            IF c # k /\ Catalog[c].field_type = "first_name" THEN <<>> ELSE val[c]]
  ELSE val

\* a check that never writes the recorded value back
RestoreFirstName_Never(val, element, recorded, read_ok) == val

\* the first-name check: read the live value and refill it when it differs;
\* read_ok is FALSE when input_value, focus or fill raises
RestoreFirstName(val, element, recorded, read_ok) ==
  IF element # 0 /\ read_ok /\ val[element] # recorded
    THEN [val EXCEPT ![element] = recorded]
  ELSE val

\* what the first-name check did: "no" when it was not made, "raised" when the
\* read or the refill raised, "restored" when the live value differed and was
\* written back, "same" when it did not differ
FirstNameCheck(val, element, recorded, check, read_ok) ==
  IF ~check THEN "no"
  ELSE IF ~read_ok THEN "raised"
  ELSE IF val[element] # recorded THEN "restored"
  ELSE "same"

\* whether the first-name check may raise: only a differing value is refilled
ReadChoices(val, element, recorded, check) ==
  IF check THEN (IF val[element] # recorded THEN BOOLEAN ELSE {TRUE}) ELSE {TRUE}

is_dropdown_field(field) ==
  \/ field.field_type \in {"country", "city", "state"}
  \/ ContainsAny(<<<<"c","o","u","n","t","r","y">>, <<"l","o","c","a","t","i","o","n">>, <<"c","i","t","y">>>>, Lower(field.label))

Entry(phase, k, r, prior, appended, checked) ==
  [run |-> run, phase |-> phase, pass |-> pass_num, ctl |-> k,
   success |-> r.success, wrote |-> r.wrote, saved |-> r.saved, issued |-> r.issued,
   how |-> r.how, prior |-> prior,
   appended |-> appended, checked |-> checked]

Result(k, r) == [ctl |-> k, success |-> r.success, filled_value |-> r.filled_value]

\* the start of fill_all_fields on freshly extracted fields
BeginFill ==
  /\ UNCHANGED jobvars
  /\ run' = run + 1
  /\ fields' = extract_form_fields
  /\ idx' = 1
  /\ _file_input_count' = 0
  /\ filled_labels' = <<>>
  /\ first_name_element' = 0
  /\ first_name_value' = <<>>
  /\ results' = <<>>
  /\ pass_num' = 0
  /\ dynamic_fields' = <<>>
  /\ didx' = 1
  /\ ridx' = 1
  /\ pc' = "first"
  /\ log' = <<>>
  /\ prev_clean' = (/\ run >= 1
                    /\ \A j \in 1..Len(results) : results[j].success
                    /\ {results[j].ctl : j \in 1..Len(results)} = shown)
  /\ UNCHANGED <<doc, scenario, shown, value, store, call, ret>>

\* process_job: extract the fields and call fill_all_fields
StartRun ==
  /\ pc = "idle"
  /\ BeginFill

\* the results fill_field can return for control k, over all the browser may do
FillResults(k, st, count) ==
  LET FillField(e) ==
        fill_field(FieldOf(k), Sc.profile, st, Sc.answered, Sc.llm_available, JobInfo, count, e)
  IN  {FillField(e) : e \in Envs(FieldOf(k))}

\* fill_field as the loop of fill_all_fields calls it: a first-name field that
\* failed is tried a second time; first is the first call, last the one kept
FirstPassResults(k) ==
  UNION {IF ~r1.success /\ FieldOf(k).field_type = "first_name"
           THEN {[first |-> r1, last |-> r2, again |-> TRUE] :
                   r2 \in FillResults(k, r1.store, r1.count)}
         ELSE {[first |-> r1, last |-> r1, again |-> FALSE]} :
         r1 \in FillResults(k, store, _file_input_count)}

\* one iteration of the loop of fill_all_fields
FirstPassStep ==
  /\ UNCHANGED jobvars
  /\ pc = "first"
  /\ UNCHANGED <<prev_clean, call, ret>>
  /\ idx <= Len(fields)
  /\ LET k == fields[idx]
         field == FieldOf(k)
         key == field_key(field)
         is_fn == field.field_type = "first_name"
         prior == Prior(filled_labels, key)
     IN  IF \/ field.field_type = "unknown" /\ ~field.is_required
            \/ key \in DOMAIN filled_labels /\ filled_labels[key]
           THEN /\ idx' = idx + 1
                /\ UNCHANGED <<doc, scenario, shown, value, store, pc, run, fields,
                               pass_num, dynamic_fields, didx, results, ridx,
                               filled_labels, first_name_element, first_name_value,
                               _file_input_count, log>>
         ELSE \E a \in FirstPassResults(k) :
              LET result == a.last
                  v1 == ApplyWrite(value, k, a.first)
                  v2 == IF a.again THEN ApplyWrite(v1, k, result) ELSE v1
                  element == IF is_fn /\ result.success THEN k
                             ELSE first_name_element
                  recorded == IF is_fn /\ result.success THEN result.filled_value
                              ELSE first_name_value
                  check == element # 0 /\ ~is_fn /\ is_dropdown_field(field)
              IN  \E clobber \in ClobberChoices(v2, k, result) :
                  \E read_ok \in ReadChoices(Clobber(v2, k, clobber), element,
                                               recorded, check) :
                    /\ value' = IF check
                                  THEN RestoreFirstName(Clobber(v2, k, clobber),
                                                        element, recorded, read_ok)
                                ELSE Clobber(v2, k, clobber)
                    /\ store' = result.store
                    /\ _file_input_count' = result.count
                    /\ first_name_element' = element
                    /\ first_name_value' = recorded
                    /\ results' = Append(results, Result(k, result))
                    /\ filled_labels' = Mark(filled_labels, key, result.success)
                    /\ log' = (IF a.again
                                 THEN Append(log, Entry("first", k, a.first, prior,
                                                        FALSE, "no"))
                               ELSE log)
                              \o <<Entry("first", k, result, prior, TRUE,
                                         FirstNameCheck(Clobber(v2, k, clobber),
                                                        element, recorded, check,
                                                        read_ok))>>
                    /\ idx' = idx + 1
                    /\ UNCHANGED <<doc, scenario, shown, pc, run, fields, pass_num,
                                   dynamic_fields, didx, ridx>>

\* the fields a re-extraction counts as new
NewFields(new_fields) ==
  LET existing_selectors == {FieldOf(results[j].ctl).selector : j \in 1..Len(results)}
      existing_labels == DOMAIN filled_labels
      is_new(k) ==
        /\ FieldOf(k).selector \notin existing_selectors
        /\ field_key(FieldOf(k)) \notin existing_labels
        /\ ~(FieldOf(k).field_type = "unknown" /\ ~FieldOf(k).is_required)
  IN  SelectSeq(new_fields, is_new)

\* the head of the loop of _fill_dynamic_fields: leave after max_passes passes,
\* else re-extract and leave when nothing is new
DynamicPass ==
  /\ UNCHANGED jobvars
  /\ \/ pc = "first" /\ idx > Len(fields)
     \/ pc = "dynamic" /\ didx > Len(dynamic_fields)
  /\ IF pass_num >= max_passes
       THEN /\ pc' = "retry"
            /\ UNCHANGED <<pass_num, dynamic_fields, didx>>
     ELSE /\ pass_num' = pass_num + 1
          /\ dynamic_fields' = NewFields(extract_form_fields)
          /\ didx' = 1
          /\ pc' = IF NewFields(extract_form_fields) = <<>> THEN "retry" ELSE "dynamic"
  /\ UNCHANGED <<doc, scenario, shown, value, store, run, fields, idx, results, ridx,
                 filled_labels, first_name_element, first_name_value,
                 _file_input_count, log, prev_clean, call, ret>>

\* one iteration of the fill loop of a reconciliation pass
DynamicFillStep ==
  /\ UNCHANGED jobvars
  /\ pc = "dynamic"
  /\ UNCHANGED <<prev_clean, call, ret>>
  /\ didx <= Len(dynamic_fields)
  /\ LET k == dynamic_fields[didx]
         field == FieldOf(k)
         key == field_key(field)
     IN  IF key \in DOMAIN filled_labels /\ filled_labels[key]
           THEN /\ didx' = didx + 1
                /\ UNCHANGED <<doc, scenario, shown, value, store, pc, run, fields, idx,
                               pass_num, dynamic_fields, results, ridx, filled_labels,
                               first_name_element, first_name_value,
                               _file_input_count, log>>
         ELSE \E result \in FillResults(k, store, _file_input_count) :
              LET v1 == ApplyWrite(value, k, result)
                  check == first_name_element # 0 /\ first_name_value # <<>>
              IN  \E clobber \in ClobberChoices(v1, k, result) :
                  \E read_ok \in ReadChoices(Clobber(v1, k, clobber),
                                               first_name_element, first_name_value,
                                               check) :
                    /\ value' = IF check
                                  THEN RestoreFirstName(Clobber(v1, k, clobber),
                                                        first_name_element,
                                                        first_name_value, read_ok)
                                ELSE Clobber(v1, k, clobber)
                    /\ store' = result.store
                    /\ _file_input_count' = result.count
                    /\ results' = Append(results, Result(k, result))
                    /\ filled_labels' = Mark(filled_labels, key, result.success)
                    /\ log' = Append(log, Entry("dynamic", k, result,
                                                Prior(filled_labels, key), TRUE,
                                                FirstNameCheck(Clobber(v1, k, clobber),
                                                               first_name_element,
                                                               first_name_value, check,
                                                               read_ok)))
                    /\ didx' = didx + 1
                    /\ UNCHANGED <<doc, scenario, shown, pc, run, fields, idx, pass_num,
                                   dynamic_fields, ridx, first_name_element,
                                   first_name_value>>

\* a retry loop that goes over every result
unknown_required_EveryResult == ridx..Len(results)

\* process_job: the positions from ridx on of the results that failed on a
\* required field (unknown_required)
unknown_required ==
  {j \in ridx..Len(results) :
     ~results[j].success /\ FieldOf(results[j].ctl).is_required}

\* process_job after fill_all_fields: for each failed required result, when the LLM
\* helper is available and suggests a value, fill_field is called once more
ProcessJobRetry ==
  /\ UNCHANGED jobvars
  /\ pc = "retry"
  /\ UNCHANGED <<prev_clean, call, ret>>
  /\ IF unknown_required = {} \/ ~Sc.llm_available
       THEN /\ pc' = "done"
            /\ UNCHANGED <<value, store, results, ridx, _file_input_count, log>>
     ELSE LET j == CHOOSE x \in unknown_required : \A y \in unknown_required : x <= y
              k == results[j].ctl
          IN  /\ ridx' = j + 1
              /\ pc' = pc
              /\ \E suggestion \in BOOLEAN :
                   IF ~suggestion
                     THEN UNCHANGED <<value, store, results, _file_input_count, log>>
                   ELSE \E result \in FillResults(k, store, _file_input_count) :
                          /\ value' = ApplyWrite(value, k, result)
                          /\ store' = result.store
                          /\ _file_input_count' = result.count
                          /\ results' =
                               IF result.success
                                 THEN [results EXCEPT ![j] = Result(k, result)]
                               ELSE results
                          /\ log' = Append(log, Entry("retry", k, result,
                                             Prior(filled_labels,
                                                   field_key(FieldOf(k))),
                                             FALSE, "no"))
  /\ UNCHANGED <<doc, scenario, shown, run, fields, idx, pass_num, dynamic_fields,
                 didx, filled_labels, first_name_element, first_name_value>>

\* the page shows a conditional control once its trigger question is answered
Reveal(c) ==
  LET HispanicNo == <<"N","o","t"," ","H","i","s","p","a","n","i","c"," ","o","r"," ","L","a","t","i","n","o">>
  IN  /\ UNCHANGED jobvars
      /\ c \in doc \ shown
      /\ Catalog[c].dyn
      /\ \E t \in shown : Catalog[t].field_type = "hispanic_latino" /\ value[t] = HispanicNo
      /\ shown' = shown \cup {c}
      /\ UNCHANGED <<doc, scenario, value, store, pc, run, fields, idx, pass_num,
                     dynamic_fields, didx, results, ridx, filled_labels,
                     first_name_element, first_name_value, _file_input_count, log,
                     prev_clean, call, ret>>

\* extraction and fill_all_fields are run once more over the same document
Rerun ==
  /\ pc = "done"
  /\ run < MaxRuns
  /\ BeginFill

\* the steps of process_job
RunStep ==
  \/ StartRun
  \/ FirstPassStep
  \/ DynamicPass
  \/ DynamicFillStep
  \/ ProcessJobRetry

Next ==
  \/ RunStep
  \/ \E c \in 1..Len(Catalog) : Reveal(c)

Spec == Init /\ [][Next]_vars

NextRerun == Next \/ Rerun

SpecRerun == InitRerun /\ [][NextRerun]_vars

(***************************************************************************)
(* The safe select and radio strategies called on their own, over bounded  *)
(* option lists, preferred values and raising selection calls.             *)
(***************************************************************************)
MaxOpts == 3

PreferredValues == {<<>>, <<"M","a","l","e">>, <<"Y","e","s">>, <<"N","o">>, <<"A","s","i","a","n">>}

\* the sequences of 1..MaxOpts distinct members of S
ListsOf(S) ==
  UNION {{q \in [1..n -> S] : \A i, j \in 1..n : i # j => q[i] # q[j]} : n \in 1..MaxOpts}

InitEeo ==
  /\ InitOn({{1}})
  /\ scenario = 1

CallEeoSelect ==
  LET EeoLabels == {<<"G","e","n","d","e","r">>, <<"A","r","e"," ","y","o","u"," ","H","i","s","p","a","n","i","c"," ","o","r"," ","L","a","t","i","n","o","?">>}
  IN  LET OptionTexts ==
            {<<"S","e","l","e","c","t">>, <<"M","a","l","e">>, <<"F","e","m","a","l","e">>, <<"H","i","s","p","a","n","i","c"," ","o","r"," ","L","a","t","i","n","o">>, <<"N","o","t"," ","H","i","s","p","a","n","i","c"," ","o","r"," ","L","a","t","i","n","o">>,
             <<"D","e","c","l","i","n","e"," ","t","o"," ","s","e","l","f","-","i","d","e","n","t","i","f","y">>}
      IN  /\ UNCHANGED jobvars
          /\ call = NoCall
          /\ \E options \in ListsOf(OptionTexts), preferred \in PreferredValues, label \in EeoLabels :
             \E fail \in FailSets(Len(options)) :
               /\ call' = [op |-> "_fill_eeo_select", options |-> options, value |-> preferred,
                           label |-> label, fail |-> fail]
               /\ ret' = _fill_eeo_select(options, preferred, label, fail)
          /\ UNCHANGED <<doc, scenario, shown, value, store, pc, run, fields, idx, pass_num,
                         dynamic_fields, didx, results, ridx, filled_labels,
                         first_name_element, first_name_value, _file_input_count, log,
                         prev_clean>>

CallSelectRadio ==
  LET \* a radio of a group: its value attribute and its label text
      Radios ==
        {[value |-> <<"m","a","l","e">>, label |-> <<"M","a","l","e">>], [value |-> <<"2">>, label |-> <<"F","e","m","a","l","e">>],
         [value |-> <<"y","e","s">>, label |-> <<"H","i","s","p","a","n","i","c"," ","o","r"," ","L","a","t","i","n","o">>],
         [value |-> <<"0">>, label |-> <<"N","o","t"," ","H","i","s","p","a","n","i","c"," ","o","r"," ","L","a","t","i","n","o">>],
         [value |-> <<"n","a">>, label |-> <<"D","e","c","l","i","n","e"," ","t","o"," ","s","e","l","f","-","i","d","e","n","t","i","f","y">>],
         [value |-> <<>>, label |-> <<"I"," ","d","o","n","'","t"," ","w","i","s","h"," ","t","o"," ","a","n","s","w","e","r">>]}
  IN  /\ UNCHANGED jobvars
      /\ call = NoCall
      /\ \E radio_options \in ListsOf(Radios), preferred \in PreferredValues :
         \E fail \in FailSets(Len(radio_options)) :
           /\ call' = [op |-> "_select_radio_option", radio_options |-> radio_options,
                       value |-> preferred, fail |-> fail]
           /\ ret' = _select_radio_option(radio_options, Strip(Lower(preferred)), fail)
      /\ UNCHANGED <<doc, scenario, shown, value, store, pc, run, fields, idx, pass_num,
                     dynamic_fields, didx, results, ridx, filled_labels,
                     first_name_element, first_name_value, _file_input_count, log,
                     prev_clean>>

\* _fill_radio: the first radio of the group, in document order, whose value is
\* the desired value or whose label holds it or is held by it, is checked
_fill_radio(radios, target) ==
  LET matches(r) ==
        \/ Lower(r.value) = Lower(target)
        \/ Contains(Lower(target), Lower(r.label))
        \/ Contains(Lower(r.label), Lower(target))
      hits == {k \in 1..Len(radios) : matches(radios[k])}
  IN  IF hits = {} THEN [ok |-> FALSE, sel |-> 0]
      ELSE [ok |-> TRUE, sel |-> CHOOSE k \in hits : \A j \in hits : k <= j]

CallFillRadio ==
  LET \* a radio of a group that is not a high-risk field
      Radios ==
        {[value |-> <<"Y","e","s">>, label |-> <<"Y","e","s">>],
         [value |-> <<"N","o">>, label |-> <<"N","o">>],
         [value |-> <<"s","p","o","n","s","o","r">>, label |-> <<"Y","e","s",","," ","w","i","t","h"," ","s","p","o","n","s","o","r","s","h","i","p">>],
         [value |-> <<"3">>, label |-> <<>>],
         [value |-> <<"o","n","s","i","t","e">>, label |-> <<"O","n"," ","s","i","t","e">>]}
  IN  /\ UNCHANGED jobvars
      /\ call = NoCall
      /\ \E radios \in ListsOf(Radios), target \in {<<"Y","e","s">>, <<"N","o">>, <<"R","e","m","o","t","e">>} :
           /\ call' = [op |-> "_fill_radio", radios |-> radios, value |-> target]
           /\ ret' = _fill_radio(radios, target)
      /\ UNCHANGED <<doc, scenario, shown, value, store, pc, run, fields, idx, pass_num,
                     dynamic_fields, didx, results, ridx, filled_labels,
                     first_name_element, first_name_value, _file_input_count, log,
                     prev_clean>>

\* the caller takes the result
Return ==
  /\ UNCHANGED jobvars
  /\ pc = "idle"
  /\ call # NoCall
  /\ call' = NoCall
  /\ ret' = NoCall
  /\ UNCHANGED <<doc, scenario, shown, value, store, pc, run, fields, idx, pass_num,
                 dynamic_fields, didx, results, ridx, filled_labels,
                 first_name_element, first_name_value, _file_input_count, log,
                 prev_clean>>

NextEeo == CallEeoSelect \/ CallSelectRadio \/ Return

SpecEeo == InitEeo /\ [][NextEeo]_vars

(***************************************************************************)
(* Properties                                                              *)
(***************************************************************************)
KeyOf(k) == field_key(FieldOf(k))

\* the calls fill_all_fields and _fill_dynamic_fields make (not process_job's)
InFillRun(entry) == entry.phase \in {"first", "dynamic"}

\* no control is attempted in a fill run after a control of the same key succeeded
NoAttemptAfterSuccess(history) ==
  \A i, j \in DOMAIN history :
    (/\ i < j
     /\ InFillRun(history[i]) /\ InFillRun(history[j])
     /\ history[i].success
     /\ KeyOf(history[i].ctl) = KeyOf(history[j].ctl)) => FALSE

MarkedFailed(k) == KeyOf(k) \in DOMAIN filled_labels /\ ~filled_labels[KeyOf(k)]

C2_AsStated ==
  (run >= 2 /\ prev_clean /\ shown = Range(fields))
    => \A i \in DOMAIN log : ~log[i].wrote

FirstPassAllSucceeded ==
  \A i \in DOMAIN log : (log[i].phase = "first" /\ log[i].appended) => log[i].success

\* C2 amended: within one run, over an unchanged document whose fields were all
\* filled successfully by the first pass, neither a reconciliation pass nor the
\* retry loop of process_job calls fill_field again, so no further write is issued.
C2_Amended ==
  (shown = Range(fields) /\ FirstPassAllSucceeded)
    => \A i \in DOMAIN log : log[i].phase = "first"

\* a run that ended after a re-extraction over the unchanged, fully filled document
C2_Witness ==
  /\ pc = "done"
  /\ pass_num >= 1
  /\ shown = Range(fields)
  /\ FirstPassAllSucceeded
  /\ \E i \in DOMAIN log : log[i].wrote

\* the label of a control contains an EEO keyword or its type is an EEO type
IsEeoControl(k) ==
  is_eeo_field(FieldOf(k).field_type) \/ is_eeo_keyword_in_text(FieldOf(k).label)

\* the pending questions of the store
Pending(st) == Range(st.pending)

\* C3: after any sequence of fill attempts no control that is EEO-typed or whose
\* label contains an EEO keyword has been written to the pending-question list.
C3_NoEeoPending ==
  \A k \in doc :
    IsEeoControl(k) => \A q \in Pending(store) : q.question # FieldOf(k).label

C5_PendingIsUnsuccessful ==
  \A i \in DOMAIN log : log[i].saved => ~log[i].success

Attempted == {log[i].ctl : i \in DOMAIN log}

\* the position of the run in its loops
Progress == <<pc, idx, didx, ridx, pass_num>>

\* what is left of a run: the entries of the loop it is in, the re-extractions
\* still allowed (each followed by at most one field per control) and the retry
\* loop of process_job
Measure ==
  LET B == Cardinality(doc) + 1
  IN  CASE pc = "done" -> 0
        [] pc = "retry" -> 1 + (Len(results) + 1 - ridx)
        [] pc = "dynamic" ->
             B + 1 + (2 - pass_num) * (B + 1) + (Len(dynamic_fields) + 1 - didx)
        [] pc = "first" -> B + 1 + 2 * (B + 1) + (Len(fields) + 1 - idx)
        [] pc = "idle" -> B + 1 + 3 * (B + 1)

\* C6: after the first pass the reconciler re-extracts at most 2 times, stops at
\* the first re-extraction that finds no new field, and the run always ends (every
\* step of the run lowers a natural-number measure that is 0 exactly when the run
\* is done); after the second re-extraction only the controls it took up are
\* attempted, so a control that appears later is never attempted.
C6_Reconciler ==
  /\ [](/\ pass_num <= 2
        /\ Range(dynamic_fields) \cup Attempted \subseteq shown
        /\ Measure \in Nat
        /\ Measure = 0 <=> pc = "done")
  /\ [][/\ (pass_num' = pass_num + 1 /\ dynamic_fields' = <<>>) => pc' = "retry"
        /\ pc \in {"retry", "done"}
             => (pass_num' = pass_num /\ dynamic_fields' = dynamic_fields)
        /\ dynamic_fields' # dynamic_fields => pass_num' = pass_num + 1
        /\ pass_num = 2 => Attempted' \subseteq Attempted \cup Range(dynamic_fields)
        /\ IF Progress' # Progress THEN Measure' < Measure
           ELSE shown' # shown /\ Attempted' = Attempted]_vars

\* a run ended after two re-extractions, the first of which found a new field,
\* and a control that could have been filled appeared too late and was not tried
C6_Witness ==
  /\ pc = "done"
  /\ pass_num = 2
  /\ \E i \in DOMAIN log : log[i].phase = "dynamic"
  /\ \E c \in shown \ Attempted :
       ~(Catalog[c].field_type = "unknown" /\ ~Catalog[c].is_required)

\* C7: a control that becomes visible only after an earlier answer is taken up by
\* the re-extraction that follows, and once attempted it ends filled or recorded
\* as pending, unless the page failed every attempt on it.
C7_DiscoveredAndSettled ==
  /\ [][pass_num' = pass_num + 1
          => \A c \in shown :
               (Catalog[c].dyn /\ c \notin Attempted)
                 => c \in Range(dynamic_fields')]_vars
  /\ [](pc = "done"
          => \A i \in DOMAIN log :
               Catalog[log[i].ctl].dyn
                 => \/ \E j \in DOMAIN log :
                         log[j].ctl = log[i].ctl /\ log[j].success
                    \/ \E q \in Pending(store) :
                         q.question = Catalog[log[i].ctl].label
                    \/ log[i].how = "none")

\* C8 as stated: after the fill of any field in the first pass or in a
\* reconciliation pass, a first-name control filled successfully earlier in the
\* run holds its recorded value again (unless reading or refilling it raised).
C8_AsStated ==
  [][(/\ Len(log') > Len(log)
      /\ InFillRun(log'[Len(log')])
      /\ first_name_element # 0)
       => \/ value'[first_name_element] = first_name_value
          \/ log'[Len(log')].checked = "raised"]_vars

LocationLike(k) ==
  /\ FieldOf(k).field_type # "first_name"
  /\ \/ FieldOf(k).field_type \in {"country", "city", "state"}
     \/ \E kw \in {<<"c","o","u","n","t","r","y">>, <<"l","o","c","a","t","i","o","n">>, <<"c","i","t","y">>} :
          Contains(kw, Lower(FieldOf(k).label))

\* C8 amended: after the fill of a field in a reconciliation pass, and after the
\* first-pass fill of a field other than first name whose type is country, city or
\* state or whose label contains "country", "location" or "city", a first-name
\* control filled successfully earlier in the run holds its recorded value again
\* before the next field is attempted, unless reading or refilling it raised;
\* after any other first-pass field no check is made.
C8_Amended ==
  [][(/\ Len(log') > Len(log)
      /\ InFillRun(log'[Len(log')])
      /\ first_name_element # 0)
       => IF \/ log'[Len(log')].phase = "dynamic"
             \/ LocationLike(log'[Len(log')].ctl)
            THEN \/ value'[first_name_element] = first_name_value
                 \/ log'[Len(log')].checked = "raised"
          ELSE /\ log'[Len(log')].checked = "no"
               /\ \/ value'[first_name_element] = value[first_name_element]
                  \/ value'[first_name_element] = <<>>]_vars

\* the first name was cleared by the fill of a reconciliation-pass field and
\* written back, and by a first-pass field after which no check is made
C8_Witness ==
  /\ first_name_element # 0
  /\ value[first_name_element] = first_name_value
  /\ \E i, j \in DOMAIN log :
       /\ i < j
       /\ log[i].phase = "first" /\ log[i].checked = "no" /\ log[i].wrote
       /\ log[i].ctl # first_name_element
       /\ log[j].phase = "dynamic" /\ log[j].checked = "restored"

HasDeclineOption(k) ==
  \E i \in DOMAIN Catalog[k].options :
    \E d \in Range(EEO_DECLINE_OPTIONS) : Contains(d, Lower(Catalog[k].options[i]))

\* C10: every attempt on an EEO-classified select that offers a decline option
\* ends with an option selected that is not a placeholder, also when the profile
\* holds no value for it, unless the page failed the attempt.
C10_EeoSelectEndsSelected ==
  \A i \in DOMAIN log :
    (/\ IsEeoControl(log[i].ctl)
     /\ Catalog[log[i].ctl].input_type = "select"
     /\ HasDeclineOption(log[i].ctl))
      => \/ log[i].how = "none"
         \/ /\ log[i].how = "select"
            /\ value[log[i].ctl] \in Range(Catalog[log[i].ctl].options)
            /\ value[log[i].ctl] \notin
                 {<<"S","e","l","e","c","t">>, <<"S","e","l","e","c","t",".",".",".">>}

\* the texts a candidate of a call is matched on: an option's text, or a radio's
\* value attribute and label
CandidateTexts(c, k) ==
  IF c.op = "_fill_eeo_select" THEN {Lower(c.options[k])}
  ELSE {Lower(c.radio_options[k].value), Lower(c.radio_options[k].label)}

CandidateCount(c) ==
  IF c.op = "_fill_eeo_select" THEN Len(c.options) ELSE Len(c.radio_options)

\* what makes candidate k one of stage 1 (exact), 3 (partial) or 4 (decline)
MatchesStage(c, k, stage) ==
  LET v == Strip(Lower(c.value))
  IN  CASE stage = 1 -> \E t \in CandidateTexts(c, k) : Strip(t) = v
        [] stage = 2 -> v \in {<<"y","e","s">>, <<"n","o">>}
        [] stage = 3 -> \E t \in CandidateTexts(c, k) : Contains(v, t)
        [] stage = 4 -> \E t \in CandidateTexts(c, k) :
                          \E d \in Range(EEO_DECLINE_OPTIONS) : Contains(d, t)

_fill_by_type_strategy_TypeOnly(field) ==
  LET is_eeo == is_eeo_field(field.field_type)
  IN  IF field.input_type = "file" THEN "_fill_file"
      ELSE IF field.input_type = "select"
        THEN (IF is_eeo THEN "_fill_eeo_select" ELSE "_fill_select")
      ELSE IF field.input_type = "checkbox" THEN "_fill_checkbox"
      ELSE IF field.input_type = "radio"
        THEN (IF is_eeo THEN "_fill_eeo_radio" ELSE "_fill_radio")
      ELSE "_fill_text"

\* _fill_by_type: the strategy the field is handed to
_fill_by_type_strategy(field) ==
  LET is_eeo == is_eeo_field(field.field_type) \/ is_eeo_keyword_in_text(field.label)
  IN  IF field.input_type = "file" THEN "_fill_file"
      ELSE IF field.input_type = "select"
        THEN (IF is_eeo THEN "_fill_eeo_select" ELSE "_fill_select")
      ELSE IF field.input_type = "checkbox" THEN "_fill_checkbox"
      ELSE IF field.input_type = "radio"
        THEN (IF is_eeo THEN "_fill_eeo_radio" ELSE "_fill_radio")
      ELSE "_fill_text"

\* the semantic types of FieldType, with the two salary-range types that no
\* pattern assigns
\* the fields the functions are called with, each with the type FIELD_PATTERNS
\* assigns to its label
CallFields ==
  {Control(<<"F","i","r","s","t"," ","n","a","m","e">>, <<>>, <<>>, "first_name", "text", <<>>, FALSE, <<>>, FALSE),
   Control(<<"F","u","l","l"," ","n","a","m","e">>, <<>>, <<>>, "full_name", "text", <<>>, FALSE, <<>>, FALSE),
   Control(<<"E","m","a","i","l">>, <<>>, <<>>, "email", "text", <<>>, FALSE, <<>>, FALSE),
   Control(<<"C","i","t","y">>, <<>>, <<>>, "city", "text", <<>>, FALSE, <<>>, FALSE),
   Control(<<"H","o","w"," ","d","i","d"," ","y","o","u"," ","h","e","a","r"," ","a","b","o","u","t"," ","u","s","?">>, <<>>, <<>>, "how_did_you_hear", "text", <<>>,
           FALSE, <<>>, FALSE),
   Control(<<"H","a","v","e"," ","y","o","u"," ","e","v","e","r"," ","b","e","e","n"," ","e","m","p","l","o","y","e","d"," ","b","y"," ","A","c","m","e"," ","C","o","r","p","?">>, <<>>, <<>>, "unknown", "text",
           <<>>, FALSE, <<>>, FALSE),
   Control(<<"S","e","x">>, <<>>, <<>>, "unknown", "select", <<>>, FALSE, <<>>, FALSE),
   Control(<<"G","e","n","d","e","r">>, <<>>, <<>>, "gender", "select", <<>>, FALSE, <<>>, FALSE),
   Control(<<"D","i","s","a","b","i","l","i","t","y"," ","s","t","a","t","u","s">>, <<>>, <<>>, "disability_status", "select", <<>>, FALSE,
           <<>>, FALSE),
   Control(<<"V","e","t","e","r","a","n"," ","s","t","a","t","u","s">>, <<>>, <<>>, "veteran_status", "radio", <<>>, FALSE, <<>>,
           FALSE),
   Control(<<"A","r","e"," ","y","o","u"," ","l","e","g","a","l","l","y"," ","a","u","t","h","o","r","i","z","e","d"," ","t","o"," ","w","o","r","k","?">>, <<>>, <<>>, "authorized_to_work",
           "radio", <<>>, FALSE, <<>>, FALSE),
   Control(<<"E","E","O",":"," ","a","u","t","h","o","r","i","z","e","d"," ","t","o"," ","w","o","r","k","?">>, <<>>, <<>>, "authorized_to_work", "select", <<>>,
           FALSE, <<>>, FALSE),
   Control(<<"V","i","s","a"," ","s","t","a","t","u","s">>, <<>>, <<>>, "visa_status", "text", <<>>, FALSE, <<>>, FALSE),
   Control(<<"D","e","s","i","r","e","d"," ","s","a","l","a","r","y">>, <<>>, <<>>, "expected_salary", "select", <<>>, FALSE, <<>>,
           FALSE),
   Control(<<"A","t","t","a","c","h">>, <<>>, <<>>, "resume", "file", <<>>, FALSE, <<>>, FALSE),
   Control(<<"C","o","v","e","r"," ","l","e","t","t","e","r">>, <<>>, <<>>, "cover_letter", "file", <<>>, FALSE, <<>>, FALSE),
   Control(<<"U","p","l","o","a","d"," ","f","i","l","e">>, <<>>, <<>>, "unknown", "file", <<>>, FALSE, <<>>, FALSE)}

\* _fill_by_type looks at the input type whatever the label says
CallFillByType ==
  /\ UNCHANGED jobvars
  /\ call = NoCall
  /\ \E f \in CallFields,
        input_type \in {"text", "textarea", "select", "radio", "checkbox", "file"} :
       LET field == [f EXCEPT !.input_type = input_type]
       IN  /\ call' = [op |-> "_fill_by_type", field |-> field]
           /\ ret' = [strategy |-> _fill_by_type_strategy(field)]
  /\ UNCHANGED <<doc, scenario, shown, value, store, pc, run, fields, idx, pass_num,
                 dynamic_fields, didx, results, ridx, filled_labels,
                 first_name_element, first_name_value, _file_input_count, log,
                 prev_clean>>

\* the resolver is called with a field, a profile (an empty one, one without a
\* default answer, one whose disability status holds a visa status) and the
\* answered custom answers
CallGetValue ==
  LET CallProfiles ==
        {EmptyProfile,
         [EmptyProfile EXCEPT !.disability_status = <<"N","o">>, !.full_name = <<"A","n","n"," ","L","e","e">>,
                              !.resume_path = <<"/","c","v","/","r","e","s","u","m","e",".","p","d","f">>],
         [EmptyProfile EXCEPT !.visa_status = <<"H","-","1","B">>, !.disability_status = <<"H","-","1","B">>,
                              !.city = <<"O","s","l","o">>, !.resume_path = <<"/","c","v","/","r","e","s","u","m","e",".","p","d","f">>,
                              !.default_how_did_you_hear = <<"L","i","n","k","e","d","I","n">>]}
      CallAnswered ==
        {<<>>,
         <<Answered(<<"H","a","v","e"," ","y","o","u"," ","e","v","e","r"," ","w","o","r","k","e","d"," ","a","t"," ","A","c","m","e"," ","C","o","r","p","?">>, <<"N","o">>)>>,
         <<Answered(<<"D","i","s","a","b","i","l","i","t","y"," ","s","t","a","t","u","s">>, <<"D","e","c","l","i","n","e">>),
           Answered(<<"H","o","w"," ","d","i","d"," ","y","o","u"," ","h","e","a","r"," ","a","b","o","u","t"," ","u","s","?">>, <<"R","e","f","e","r","r","a","l">>)>>}
  IN  /\ UNCHANGED jobvars
      /\ call = NoCall
      /\ \E field \in CallFields, p \in CallProfiles, answered \in CallAnswered,
            llm_available \in BOOLEAN, llm_answer \in LlmAnswers, count \in 0..1 :
           /\ llm_available \/ llm_answer = <<>>
           /\ call' = [op |-> "_get_value_for_field", field |-> field, profile |-> p,
                       answered |-> answered, llm_available |-> llm_available,
                       llm_answer |-> llm_answer, count |-> count]
           /\ ret' = _get_value_for_field(field, p, answered, llm_available, llm_answer,
                                          count)
      /\ UNCHANGED <<doc, scenario, shown, value, store, pc, run, fields, idx, pass_num,
                     dynamic_fields, didx, results, ridx, filled_labels,
                     first_name_element, first_name_value, _file_input_count, log,
                     prev_clean>>

\* the stored answers find_custom_answer is called with: up to two of these,
\* in any order
CallFindCustomAnswer ==
  LET CallStored ==
        {Answered(<<"H","a","v","e"," ","y","o","u"," ","e","v","e","r"," ","w","o","r","k","e","d"," ","a","t"," ","A","c","m","e"," ","C","o","r","p","?">>, <<"N","o">>),
         Answered(<<"H","a","v","e"," ","y","o","u"," ","e","v","e","r"," ","w","o","r","k","e","d"," ","a","t"," ","A","C","M","E"," ","c","o","r","p">>, <<"Y","e","s">>),
         Answered(<<"V","e","t","e","r","a","n"," ","s","t","a","t","u","s">>, <<"I"," ","a","m"," ","n","o","t"," ","a"," ","v","e","t","e","r","a","n">>),
         Answered(<<"D","e","s","i","r","e","d"," ","s","a","l","a","r","y"," ","a","n","d"," ","s","t","a","r","t"," ","d","a","t","e">>, <<"1","0","0","k">>)}
  IN  /\ UNCHANGED jobvars
      /\ call = NoCall
      /\ \E question \in {<<"H","a","v","e"," ","y","o","u"," ","e","v","e","r"," ","b","e","e","n"," ","e","m","p","l","o","y","e","d"," ","b","y"," ","A","c","m","e"," ","C","o","r","p","?">>,
                          <<"h","a","v","e"," ","y","o","u"," ","e","v","e","r"," ","w","o","r","k","e","d"," ","a","t"," ","a","c","m","e"," ","c","o","r","p","?">>,
                          <<"A","r","e"," ","y","o","u"," ","a"," ","v","e","t","e","r","a","n","?">>, <<"S","t","a","r","t"," ","d","a","t","e">>, <<"S","a","l","a","r","y"," ","a","n","d"," ","s","t","a","r","t"," ","d","a","t","e">>},
            options \in {<<>>, <<<<"Y","e","s">>, <<"N","o">>>>, <<<<"M","a","y","b","e">>>>},
            n \in 0..2 :
           \E answered \in {q \in [1..n -> CallStored] : \A i, j \in 1..n : i # j => q[i] # q[j]} :
             /\ call' = [op |-> "find_custom_answer", question |-> question,
                         options |-> options, answered |-> answered]
             /\ ret' = [value |-> find_custom_answer(question, options, answered)]
      /\ UNCHANGED <<doc, scenario, shown, value, store, pc, run, fields, idx, pass_num,
                     dynamic_fields, didx, results, ridx, filled_labels,
                     first_name_element, first_name_value, _file_input_count, log,
                     prev_clean>>

(***************************************************************************)
(* form_filler.py, field_mapping.py: the classifier.  A regular expression *)
(* of the catalog is a record: "lit" a (a found anywhere), "whole" ^a$,    *)
(* "prefix" ^a, "gap" a\s*b, "any" a.*b and "opt" ac?b.  The catalog holds *)
(* the patterns of first name, full name, email, city, resume, cover       *)
(* letter and race, in the order of FIELD_PATTERNS.  Confidences are in    *)
(* tenths: 9 stands for 0.9.                                               *)
(***************************************************************************)
\* re.search(r, text) for the expressions of the catalog
re_search(r, text) ==
  LET n == Len(text)
      At(s, i) == i >= 1 /\ i + Len(s) - 1 <= n /\ SubSeq(text, i, i + Len(s) - 1) = s
  IN  CASE r.kind = "lit" -> Contains(r.a, text)
        [] r.kind = "whole" -> text = r.a
        [] r.kind = "prefix" -> StartsWith(text, r.a)
        [] r.kind = "gap" ->
             \E i \in 1..n, j \in 1..n :
               /\ At(r.a, i) /\ j >= i + Len(r.a) /\ At(r.b, j)
               /\ \A k \in (i + Len(r.a))..(j - 1) : text[k] = " "
        [] r.kind = "any" ->
             \E i \in 1..n, j \in 1..n : At(r.a, i) /\ j >= i + Len(r.a) /\ At(r.b, j)
        [] r.kind = "opt" ->
             \E i \in 1..n :
               /\ At(r.a, i)
               /\ \/ At(r.b, i + Len(r.a))
                  \/ At(r.c, i + Len(r.a)) /\ At(r.b, i + Len(r.a) + Len(r.c))

FIELD_PATTERNS ==
  <<
    [field_type |-> "first_name",
     label_patterns |->
       <<[kind |-> "gap", a |-> <<"f","i","r","s","t">>, b |-> <<"n","a","m","e">>, c |-> <<>>],
         [kind |-> "gap", a |-> <<"g","i","v","e","n">>, b |-> <<"n","a","m","e">>, c |-> <<>>],
         [kind |-> "whole", a |-> <<"n","a","m","e">>, b |-> <<>>, c |-> <<>>]>>,
     name_patterns |->
       <<[kind |-> "opt", a |-> <<"f","i","r","s","t">>, b |-> <<"n","a","m","e">>, c |-> <<"_">>],
         [kind |-> "lit", a |-> <<"f","n","a","m","e">>, b |-> <<>>, c |-> <<>>],
         [kind |-> "opt", a |-> <<"g","i","v","e","n">>, b |-> <<"n","a","m","e">>, c |-> <<"_">>]>>,
     placeholder_patterns |->
       <<[kind |-> "gap", a |-> <<"f","i","r","s","t">>, b |-> <<"n","a","m","e">>, c |-> <<>>],
         [kind |-> "lit", a |-> <<"j","o","h","n">>, b |-> <<>>, c |-> <<>>]>>],
    [field_type |-> "full_name",
     label_patterns |->
       <<[kind |-> "gap", a |-> <<"f","u","l","l">>, b |-> <<"n","a","m","e">>, c |-> <<>>],
         [kind |-> "whole", a |-> <<"n","a","m","e">>, b |-> <<>>, c |-> <<>>],
         [kind |-> "gap", a |-> <<"y","o","u","r">>, b |-> <<"n","a","m","e">>, c |-> <<>>]>>,
     name_patterns |->
       <<[kind |-> "opt", a |-> <<"f","u","l","l">>, b |-> <<"n","a","m","e">>, c |-> <<"_">>],
         [kind |-> "whole", a |-> <<"n","a","m","e">>, b |-> <<>>, c |-> <<>>]>>,
     placeholder_patterns |->
       <<[kind |-> "gap", a |-> <<"f","u","l","l">>, b |-> <<"n","a","m","e">>, c |-> <<>>],
         [kind |-> "lit", a |-> <<"j","o","h","n"," ","d","o","e">>, b |-> <<>>, c |-> <<>>]>>],
    [field_type |-> "email",
     label_patterns |->
       <<[kind |-> "opt", a |-> <<"e">>, b |-> <<"m","a","i","l">>, c |-> <<"-">>],
         [kind |-> "gap", a |-> <<"e","m","a","i","l">>, b |-> <<"a","d","d","r","e","s","s">>, c |-> <<>>]>>,
     name_patterns |->
       <<[kind |-> "opt", a |-> <<"e">>, b |-> <<"m","a","i","l">>, c |-> <<"-">>],
         [kind |-> "opt", a |-> <<"e","m","a","i","l">>, b |-> <<"a","d","d","r","e","s","s">>, c |-> <<"_">>]>>,
     placeholder_patterns |->
       <<[kind |-> "opt", a |-> <<"e">>, b |-> <<"m","a","i","l">>, c |-> <<"-">>],
         [kind |-> "lit", a |-> <<"@">>, b |-> <<>>, c |-> <<>>],
         [kind |-> "lit", a |-> <<"e","x","a","m","p","l","e",".","c","o","m">>, b |-> <<>>, c |-> <<>>]>>],
    [field_type |-> "city",
     label_patterns |->
       <<[kind |-> "whole", a |-> <<"c","i","t","y">>, b |-> <<>>, c |-> <<>>],
         [kind |-> "any", a |-> <<"l","o","c","a","t","i","o","n">>, b |-> <<"c","i","t","y">>, c |-> <<>>],
         [kind |-> "any", a |-> <<"c","i","t","y">>, b |-> <<"l","o","c","a","t","i","o","n">>, c |-> <<>>]>>,
     name_patterns |->
       <<[kind |-> "whole", a |-> <<"c","i","t","y">>, b |-> <<>>, c |-> <<>>],
         [kind |-> "any", a |-> <<"l","o","c","a","t","i","o","n">>, b |-> <<"c","i","t","y">>, c |-> <<>>]>>,
     placeholder_patterns |->
       <<[kind |-> "lit", a |-> <<"c","i","t","y">>, b |-> <<>>, c |-> <<>>],
         [kind |-> "lit", a |-> <<"s","a","n"," ","f","r","a","n","c","i","s","c","o">>, b |-> <<>>, c |-> <<>>]>>],
    [field_type |-> "resume",
     label_patterns |->
       <<[kind |-> "lit", a |-> <<"r","e","s","u","m","e">>, b |-> <<>>, c |-> <<>>],
         [kind |-> "lit", a |-> <<"c","v">>, b |-> <<>>, c |-> <<>>],
         [kind |-> "gap", a |-> <<"c","u","r","r","i","c","u","l","u","m">>, b |-> <<"v","i","t","a","e">>, c |-> <<>>],
         [kind |-> "whole", a |-> <<"a","t","t","a","c","h">>, b |-> <<>>, c |-> <<>>],
         [kind |-> "any", a |-> <<"a","t","t","a","c","h">>, b |-> <<"r","e","s","u","m","e">>, c |-> <<>>],
         [kind |-> "any", a |-> <<"u","p","l","o","a","d">>, b |-> <<"r","e","s","u","m","e">>, c |-> <<>>]>>,
     name_patterns |->
       <<[kind |-> "lit", a |-> <<"r","e","s","u","m","e">>, b |-> <<>>, c |-> <<>>],
         [kind |-> "lit", a |-> <<"c","v">>, b |-> <<>>, c |-> <<>>],
         [kind |-> "lit", a |-> <<"d","a","t","a","_","c","o","m","p","l","i","a","n","c","e","[","r","e","s","u","m","e">>, b |-> <<>>, c |-> <<>>],
         [kind |-> "lit", a |-> <<"r","e","s","u","m","e","_","f","i","l","e">>, b |-> <<>>, c |-> <<>>]>>,
     placeholder_patterns |->
       <<>>],
    [field_type |-> "cover_letter",
     label_patterns |->
       <<[kind |-> "gap", a |-> <<"c","o","v","e","r">>, b |-> <<"l","e","t","t","e","r">>, c |-> <<>>]>>,
     name_patterns |->
       <<[kind |-> "lit", a |-> <<"c","o","v","e","r">>, b |-> <<>>, c |-> <<>>],
         [kind |-> "lit", a |-> <<"l","e","t","t","e","r">>, b |-> <<>>, c |-> <<>>],
         [kind |-> "lit", a |-> <<"c","o","v","e","r","_","l","e","t","t","e","r">>, b |-> <<>>, c |-> <<>>]>>,
     placeholder_patterns |->
       <<>>],
    [field_type |-> "race",
     label_patterns |->
       <<[kind |-> "whole", a |-> <<"r","a","c","e">>, b |-> <<>>, c |-> <<>>],
         [kind |-> "prefix", a |-> <<"r","a","c","e",":">>, b |-> <<>>, c |-> <<>>]>>,
     name_patterns |->
       <<[kind |-> "whole", a |-> <<"r","a","c","e">>, b |-> <<>>, c |-> <<>>]>>,
     placeholder_patterns |->
       <<>>]
  >>

\* for p in patterns: if re.search(p, text): ... break
AnyPattern(patterns, text) == \E k \in 1..Len(patterns) : re_search(patterns[k], text)

\* a classifier that weighs a label match like a name match
PatternScore_LabelAsName(pattern, label, name, id_attr, placeholder) ==
  LET s1 == IF AnyPattern(pattern.label_patterns, Lower(label)) THEN 8 ELSE 0
      s2 == IF \/ AnyPattern(pattern.name_patterns, Lower(name))
               \/ AnyPattern(pattern.name_patterns, Lower(id_attr))
              THEN (IF s1 > 8 THEN s1 ELSE 8) ELSE s1
  IN  IF AnyPattern(pattern.placeholder_patterns, Lower(placeholder))
        THEN (IF s2 > 7 THEN s2 ELSE 7) ELSE s2

\* the score of one pattern in the loop of _match_field_type
PatternScore(pattern, label, name, id_attr, placeholder) ==
  LET s1 == IF AnyPattern(pattern.label_patterns, Lower(label)) THEN 9 ELSE 0
      s2 == IF \/ AnyPattern(pattern.name_patterns, Lower(name))
               \/ AnyPattern(pattern.name_patterns, Lower(id_attr))
              THEN (IF s1 > 8 THEN s1 ELSE 8) ELSE s1
  IN  IF AnyPattern(pattern.placeholder_patterns, Lower(placeholder))
        THEN (IF s2 > 7 THEN s2 ELSE 7) ELSE s2

\* the loop of _match_field_type from pattern i on: a pattern replaces the best
\* match only with a strictly higher score
RECURSIVE MatchFrom(_, _, _, _, _, _)
MatchFrom(i, best_match, label, name, id_attr, placeholder) ==
  IF i > Len(FIELD_PATTERNS) THEN best_match
  ELSE LET score == PatternScore(FIELD_PATTERNS[i], label, name, id_attr, placeholder)
       IN  MatchFrom(i + 1,
                     IF score > best_match.confidence
                       THEN [field_type |-> FIELD_PATTERNS[i].field_type,
                             confidence |-> score]
                     ELSE best_match,
                     label, name, id_attr, placeholder)

_match_field_type(label, name, id_attr, placeholder) ==
  MatchFrom(1, [field_type |-> "unknown", confidence |-> 0], label, name, id_attr,
            placeholder)

CallMatchFieldType ==
  /\ UNCHANGED jobvars
  /\ call = NoCall
  /\ \E label \in {<<"F","i","r","s","t"," ","N","a","m","e">>, <<"N","a","m","e">>, <<"E","-","m","a","i","l"," ","a","d","d","r","e","s","s">>, <<"C","i","t","y">>, <<"A","t","t","a","c","h">>,
                   <<"C","o","v","e","r"," ","L","e","t","t","e","r">>, <<"R","a","c","e">>, <<"F","a","v","o","u","r","i","t","e"," ","c","o","l","o","u","r">>, <<"U","p","l","o","a","d"," ","y","o","u","r"," ","r","e","s","u","m","e">>},
        name \in {<<>>, <<"f","n","a","m","e">>, <<"e","m","a","i","l">>, <<"c","o","v","e","r","_","l","e","t","t","e","r">>, <<"q","_","1","2">>},
        id_attr \in {<<>>, <<"r","a","c","e">>, <<"c","i","t","y">>},
        placeholder \in {<<>>, <<"J","o","h","n"," ","D","o","e">>, <<"y","o","u","@","e","x","a","m","p","l","e",".","c","o","m">>, <<"C","i","t","y">>} :
       /\ call' = [op |-> "_match_field_type", label |-> label, name |-> name,
                   id_attr |-> id_attr, placeholder |-> placeholder]
       /\ ret' = _match_field_type(label, name, id_attr, placeholder)
  /\ UNCHANGED <<doc, scenario, shown, value, store, pc, run, fields, idx, pass_num,
                 dynamic_fields, didx, results, ridx, filled_labels,
                 first_name_element, first_name_value, _file_input_count, log,
                 prev_clean>>

(***************************************************************************)
(* form_filler.py: the frame locator.  A page has main_inputs fillable      *)
(* controls in its top-level document and a list of iframes, all children   *)
(* of one element; an iframe has an id, a name, the keyword found in its    *)
(* URL, whether it lies inside #grnhse_app, and its number of fillable      *)
(* controls.  Frame 0 is the top-level document, frame i the document of    *)
(* the i-th iframe.  On a closed page every query of the page raises.       *)
(***************************************************************************)
\* _find_form_frame: the frame returned and _iframe_selector afterwards (<<>> for
\* None), or raised when an exception leaves the function
_find_form_frame(page, _iframe_selector) ==
  LET n == Len(page.iframes)
      grnhse_selectors == <<<<"#","g","r","n","h","s","e","_","i","f","r","a","m","e">>, <<"#","g","r","n","h","s","e","_","a","p","p"," ","i","f","r","a","m","e">>,
                            <<"i","f","r","a","m","e","[","s","r","c","*","=","\"","g","r","e","e","n","h","o","u","s","e","\"","]">>>>
      Selected(k) ==
        {i \in 1..n :
           CASE k = 1 -> page.iframes[i].id = <<"g","r","n","h","s","e","_","i","f","r","a","m","e">>
             [] k = 2 -> page.iframes[i].in_grnhse_app
             [] k = 3 -> page.iframes[i].url = <<"g","r","e","e","n","h","o","u","s","e">>}
      First(I) == CHOOSE i \in I : \A j \in I : i <= j
      Greenhouse == {k \in 1..3 : /\ Selected(k) # {}
                                  /\ page.iframes[First(Selected(k))].inputs > 0}
      Embedded == {i \in 1..n : /\ page.iframes[i].url # <<>>
                                /\ page.iframes[i].inputs > 3}
      Others == {i \in 1..n : page.iframes[i].inputs > 3}
      Path(i) ==
        IF page.iframes[i].id # <<>> THEN <<"i","f","r","a","m","e","#">> \o page.iframes[i].id
        ELSE IF page.iframes[i].name # <<>>
          THEN <<"i","f","r","a","m","e","[","n","a","m","e","=","\"">> \o page.iframes[i].name \o <<"\"","]">>
        ELSE <<"i","f","r","a","m","e",":","n","t","h","-","o","f","-","t","y","p","e","(">> \o IntToStr(i) \o <<")">>
  IN  IF page.closed
        THEN [raised |-> TRUE, frame |-> 0, _iframe_selector |-> _iframe_selector]
      ELSE IF Greenhouse # {}
        THEN [raised |-> FALSE, frame |-> First(Selected(First(Greenhouse))),
              _iframe_selector |-> grnhse_selectors[First(Greenhouse)]]
      ELSE IF page.main_inputs > 3
        THEN [raised |-> FALSE, frame |-> 0, _iframe_selector |-> <<>>]
      ELSE IF Embedded # {}
        THEN [raised |-> FALSE, frame |-> First(Embedded),
              _iframe_selector |-> Path(First(Embedded))]
      ELSE IF Others # {}
        THEN [raised |-> FALSE, frame |-> First(Others),
              _iframe_selector |-> _iframe_selector]
      ELSE [raised |-> FALSE, frame |-> 0, _iframe_selector |-> <<>>]

\* _get_active_frame: page.query_selector(_iframe_selector) finds the first
\* iframe the selector matches; without one the locator is called again
_get_active_frame(page, _iframe_selector) ==
  LET n == Len(page.iframes)
      Matching ==
        {i \in 1..n :
           \/ _iframe_selector = <<"#">> \o page.iframes[i].id
           \/ _iframe_selector = <<"i","f","r","a","m","e","#">> \o page.iframes[i].id
           \/ _iframe_selector = <<"i","f","r","a","m","e","[","n","a","m","e","=","\"">> \o page.iframes[i].name \o <<"\"","]">>
           \/ _iframe_selector = <<"i","f","r","a","m","e",":","n","t","h","-","o","f","-","t","y","p","e","(">> \o IntToStr(i) \o <<")">>
           \/ _iframe_selector = <<"#","g","r","n","h","s","e","_","a","p","p"," ","i","f","r","a","m","e">> /\ page.iframes[i].in_grnhse_app
           \/ /\ _iframe_selector = <<"i","f","r","a","m","e","[","s","r","c","*","=","\"","g","r","e","e","n","h","o","u","s","e","\"","]">>
              /\ page.iframes[i].url = <<"g","r","e","e","n","h","o","u","s","e">>}
  IN  IF _iframe_selector # <<>> /\ ~page.closed /\ Matching # {}
        THEN [raised |-> FALSE, frame |-> CHOOSE i \in Matching : \A j \in Matching : i <= j,
              _iframe_selector |-> _iframe_selector]
      ELSE _find_form_frame(page, _iframe_selector)

\* _find_form_frame is called on a page, with the selector an earlier call left;
\* _get_active_frame is called next on the same page
CallFindFormFrame ==
  LET Iframes ==
        {[id |-> <<"g","r","n","h","s","e","_","i","f","r","a","m","e">>, name |-> <<>>, url |-> <<"g","r","e","e","n","h","o","u","s","e">>,
          in_grnhse_app |-> TRUE, inputs |-> 6],
         [id |-> <<>>, name |-> <<>>, url |-> <<"g","r","e","e","n","h","o","u","s","e">>, in_grnhse_app |-> FALSE,
          inputs |-> 0],
         [id |-> <<"a","p","p","l","y">>, name |-> <<>>, url |-> <<"l","e","v","e","r">>, in_grnhse_app |-> FALSE,
          inputs |-> 5],
         [id |-> <<>>, name |-> <<"f","o","r","m">>, url |-> <<"a","s","h","b","y">>, in_grnhse_app |-> FALSE,
          inputs |-> 4],
         [id |-> <<>>, name |-> <<>>, url |-> <<"a","p","p","l","y">>, in_grnhse_app |-> FALSE,
          inputs |-> 7],
         [id |-> <<>>, name |-> <<>>, url |-> <<>>, in_grnhse_app |-> FALSE,
          inputs |-> 5],
         [id |-> <<"a","d","s">>, name |-> <<>>, url |-> <<>>, in_grnhse_app |-> FALSE,
          inputs |-> 1]}
  IN  /\ UNCHANGED jobvars
      /\ call = NoCall
      /\ \E n \in 0..2, main_inputs \in {0, 2, 5}, closed \in BOOLEAN,
            _iframe_selector \in {<<>>, <<"i","f","r","a","m","e","#","a","p","p","l","y">>} :
           \E iframes \in [1..n -> Iframes] :
             LET page == [main_inputs |-> main_inputs, iframes |-> iframes,
                          closed |-> closed]
                 found == _find_form_frame(page, _iframe_selector)
             IN  /\ call' = [op |-> "_find_form_frame", page |-> page,
                             _iframe_selector |-> _iframe_selector]
                 /\ ret' = [raised |-> found.raised, frame |-> found.frame,
                            _iframe_selector |-> found._iframe_selector,
                            again |-> _get_active_frame(page, found._iframe_selector)]
      /\ UNCHANGED <<doc, scenario, shown, value, store, pc, run, fields, idx, pass_num,
                     dynamic_fields, didx, results, ridx, filled_labels,
                     first_name_element, first_name_value, _file_input_count, log,
                     prev_clean>>

\* _build_selector for the two inputs that extract_form_fields finds in a
\* document: with an id or a name as above, else by the first of aria-label
\* and placeholder that only one element of the document carries, else by the
\* place among the inputs of the parent (parent.node tells the parents apart,
\* parent.selector is the id, first class or tag of the parent)
CallBuildSelector ==
  LET Elements ==
        {[id |-> <<"e","m","a","i","l">>, name |-> <<"e","m","a","i","l">>, aria_label |-> <<>>, placeholder |-> <<>>,
          parent |-> [node |-> 1, selector |-> <<"f","o","r","m">>]],
         [id |-> <<"1","s","t">>, name |-> <<>>, aria_label |-> <<>>, placeholder |-> <<>>,
          parent |-> [node |-> 1, selector |-> <<"f","o","r","m">>]],
         [id |-> <<>>, name |-> <<"g","e","n","d","e","r">>, aria_label |-> <<>>, placeholder |-> <<>>,
          parent |-> [node |-> 1, selector |-> <<"f","o","r","m">>]],
         [id |-> <<>>, name |-> <<>>, aria_label |-> <<"P","h","o","n","e">>, placeholder |-> <<>>,
          parent |-> [node |-> 2, selector |-> <<".","f","i","e","l","d">>]],
         [id |-> <<>>, name |-> <<>>, aria_label |-> <<>>, placeholder |-> <<"C","i","t","y">>,
          parent |-> [node |-> 2, selector |-> <<".","f","i","e","l","d">>]],
         [id |-> <<>>, name |-> <<>>, aria_label |-> <<>>, placeholder |-> <<>>,
          parent |-> [node |-> 2, selector |-> <<".","f","i","e","l","d">>]],
         [id |-> <<>>, name |-> <<>>, aria_label |-> <<>>, placeholder |-> <<>>,
          parent |-> [node |-> 3, selector |-> <<".","f","i","e","l","d">>]]}
      Only(document, attr, k) ==
        /\ document[k][attr] # <<>>
        /\ \A j \in 1..Len(document) : document[j][attr] = document[k][attr] => j = k
      Place(document, k) ==
        Cardinality({j \in 1..k : document[j].parent.node = document[k].parent.node})
      Selector(document, k) ==
        LET el == document[k]
        IN  IF el.id # <<>> \/ el.name # <<>> THEN _build_selector(el)
            ELSE IF Only(document, "aria_label", k)
              THEN <<"[","a","r","i","a","-","l","a","b","e","l","=","\"">> \o el.aria_label \o <<"\"","]">>
            ELSE IF Only(document, "placeholder", k)
              THEN <<"[","p","l","a","c","e","h","o","l","d","e","r","=","\"">> \o el.placeholder \o <<"\"","]">>
            ELSE el.parent.selector \o <<" ",">"," ","i","n","p","u","t","[","t","y","p","e","=","\"","t","e","x","t","\"","]",":","n","t","h","-","o","f","-","t","y","p","e","(">>
                   \o IntToStr(Place(document, k)) \o <<")">>
  IN  /\ UNCHANGED jobvars
      /\ call = NoCall
      /\ \E document \in [1..2 -> Elements] :
           /\ call' = [op |-> "_build_selector", document |-> document]
           /\ ret' = [selector |-> [k \in 1..2 |-> Selector(document, k)]]
      /\ UNCHANGED <<doc, scenario, shown, value, store, pc, run, fields, idx, pass_num,
                     dynamic_fields, didx, results, ridx, filled_labels,
                     first_name_element, first_name_value, _file_input_count, log,
                     prev_clean>>

\* _fill_select on a select whose label names no month, date or year: the
\* position of the option selected, 0 when the strategy returns False
_fill_select(options, target) ==
  LET value_lower == Strip(Lower(target))
      First(I) == IF I = {} THEN 0 ELSE CHOOSE i \in I : \A j \in I : i <= j
      exact == {i \in 1..Len(options) : Lower(options[i]) = value_lower}
      partial == {i \in 1..Len(options) :
                    \/ Contains(value_lower, Lower(options[i]))
                    \/ Contains(Lower(options[i]), value_lower)}
      yes == {i \in 1..Len(options) : /\ value_lower \in {<<"y","e","s">>, <<"t","r","u","e">>}
                                      /\ Lower(options[i]) \in {<<"y","e","s">>, <<"t","r","u","e">>}}
      no == {i \in 1..Len(options) : /\ value_lower \in {<<"n","o">>, <<"f","a","l","s","e">>}
                                     /\ Lower(options[i]) \in {<<"n","o">>, <<"f","a","l","s","e">>}}
  IN  IF exact # {} THEN First(exact)
      ELSE IF partial # {} THEN First(partial)
      ELSE IF yes # {} THEN First(yes)
      ELSE First(no)

\* _fill_select is called for a select with up to MaxOpts options
CallFillSelect ==
  /\ UNCHANGED jobvars
  /\ call = NoCall
  /\ \E options \in ListsOf({<<>>, <<"S","e","l","e","c","t",".",".",".">>, <<"Y","e","s",","," ","I"," ","a","m"," ","a","u","t","h","o","r","i","z","e","d">>,
                             <<"N","o",","," ","I"," ","r","e","q","u","i","r","e"," ","s","p","o","n","s","o","r","s","h","i","p">>, <<"Y","e","s">>, <<"N","o">>, <<"T","R","U","E">>}),
        target \in {<<"Y","e","s">>, <<"n","o">>, <<"t","r","u","e">>, <<"N","o",","," ","I"," ","r","e","q","u","i","r","e"," ","s","p","o","n","s","o","r","s","h","i","p"," ","n","o","w">>, <<"M","a","y","b","e">>} :
       /\ call' = [op |-> "_fill_select", options |-> options, value |-> target]
       /\ ret' = [selected |-> _fill_select(options, target)]
  /\ UNCHANGED <<doc, scenario, shown, value, store, pc, run, fields, idx, pass_num,
                 dynamic_fields, didx, results, ridx, filled_labels,
                 first_name_element, first_name_value, _file_input_count, log,
                 prev_clean>>

\* _fill_eeo_text_dropdown is called with a target for a dropdown that shows up
\* to MaxOpts options; score is the score the loop gives each of them
CallDropdown ==
  /\ UNCHANGED jobvars
  /\ call = NoCall
  /\ \E visible_options \in
          {<<>>} \cup ListsOf({<<"M","a","l","e">>, <<"F","e","m","a","l","e">>, <<"N","o","t"," ","H","i","s","p","a","n","i","c"," ","o","r"," ","L","a","t","i","n","o">>, <<"N","o">>,
                               <<"Y","e","s",","," ","I"," ","a","m">>, <<"I"," ","a","m"," ","n","o","t"," ","a"," ","v","e","t","e","r","a","n">>,
                               <<"D","e","c","l","i","n","e"," ","t","o"," ","s","e","l","f","-","i","d","e","n","t","i","f","y">>}),
        target \in {<<>>, <<" "," ">>, <<"m","a","l","e">>, <<"N","o">>, <<"Y","e","s">>, <<"A","s","i","a","n">>},
        opened \in BOOLEAN :
       \E fail \in FailSets(Len(visible_options)) :
         /\ call' = [op |-> "_fill_eeo_text_dropdown", visible_options |-> visible_options,
                     value |-> target, opened |-> opened, fail |-> fail]
         /\ ret' = [result |-> _fill_eeo_text_dropdown(
                                 [label |-> <<"G","e","n","d","e","r">>], target, visible_options, opened,
                                 fail),
                    score |-> [k \in 1..Len(visible_options) |->
                                 DropdownScore(visible_options[k], Strip(Lower(target)))]]
  /\ UNCHANGED <<doc, scenario, shown, value, store, pc, run, fields, idx, pass_num,
                 dynamic_fields, didx, results, ridx, filled_labels,
                 first_name_element, first_name_value, _file_input_count, log,
                 prev_clean>>

NextCalls ==
  \/ CallFillByType
  \/ CallGetValue
  \/ CallFindCustomAnswer
  \/ CallMatchFieldType
  \/ CallFindFormFrame
  \/ CallBuildSelector
  \/ CallFillSelect
  \/ CallDropdown
  \/ CallFillRadio
  \/ Return

SpecCalls == InitEeo /\ [][NextCalls]_vars

(***************************************************************************)
(* config.py: the custom-answer store of a profile across saves and        *)
(* promotions.                                                             *)
(***************************************************************************)
\* a profile file whose custom_answers hold no question twice
InitStore ==
  LET Questions == {<<"W","h","y"," ","u","s","?">>, <<"w","h","y"," "," ","u","s">>, <<"N","o","t","i","c","e"," ","p","e","r","i","o","d","?">>, <<"R","e","l","o","c","a","t","e","?">>}
      PendingEntries ==
        {[question |-> q, answer |-> a, options |-> <<>>, job |-> <<"I","n","i","t","e","c","h"," ","-"," ","A","n","a","l","y","s","t">>] :
           q \in Questions, a \in {<<>>, <<"Y","e","s">>, <<" ">>}}
      AnsweredLists == {<<>>} \cup {<<Answered(q, <<"N","o">>)>> : q \in Questions}
      PendingLists ==
        {<<>>} \cup UNION {[1..n -> PendingEntries] : n \in 1..2}
      DuplicateFree(st) ==
        LET all == [k \in 1..Len(st.answered) |-> _normalize_question(st.answered[k].question)]
                     \o [k \in 1..Len(st.pending) |-> _normalize_question(st.pending[k].question)]
        IN  \A i, j \in 1..Len(all) : i # j => all[i] # all[j]
  IN  /\ doc = {1}
      /\ scenario = 1
      /\ shown = doc
      /\ value = [k \in doc |-> <<>>]
      /\ pc = "idle"
      /\ run = 0
      /\ fields = <<>>
      /\ idx = 1
      /\ pass_num = 0
      /\ dynamic_fields = <<>>
      /\ didx = 1
      /\ results = <<>>
      /\ ridx = 1
      /\ filled_labels = <<>>
      /\ first_name_element = 0
      /\ first_name_value = <<>>
      /\ _file_input_count = 0
      /\ log = <<>>
      /\ prev_clean = FALSE
      /\ call = NoCall
      /\ ret = NoCall
      /\ logger = [applications |-> <<>>, _current_app |-> <<>>]
      /\ page_url = "form"
      /\ elapsed = 0
      /\ polls = 0
      /\ returns = <<>>
      /\ store \in {st \in [answered : AnsweredLists, pending : PendingLists] :
                      DuplicateFree(st)}

CallSavePending ==
  /\ UNCHANGED jobvars
  /\ call = NoCall
  /\ \E question \in {<<"W","h","y"," ","u","s","?">>, <<"w","h","y"," "," ","u","s">>, <<"W","h","y"," ","u","s"," ","?","!">>, <<"N","o","t","i","c","e"," ","p","e","r","i","o","d","?">>}, options \in {<<>>, <<<<"Y","e","s">>, <<"N","o">>>>} :
       LET r == save_pending_question(store, question, options, JobInfo)
       IN  /\ call' = [op |-> "save_pending_question", store |-> store,
                       question |-> question, options |-> options]
           /\ store' = r.store
           /\ ret' = [saved |-> r.saved]
  /\ UNCHANGED <<doc, scenario, shown, value, pc, run, fields, idx, pass_num,
                 dynamic_fields, didx, results, ridx, filled_labels,
                 first_name_element, first_name_value, _file_input_count, log,
                 prev_clean>>

CallPromote ==
  /\ UNCHANGED jobvars
  /\ call = NoCall
  /\ LET r == promote_pending_to_answered(store)
     IN  /\ call' = [op |-> "promote_pending_to_answered", store |-> store]
         /\ store' = r.store
         /\ ret' = [promoted |-> r.promoted]
  /\ UNCHANGED <<doc, scenario, shown, value, pc, run, fields, idx, pass_num,
                 dynamic_fields, didx, results, ridx, filled_labels,
                 first_name_element, first_name_value, _file_input_count, log,
                 prev_clean>>

NextStore == CallSavePending \/ CallPromote \/ Return

SpecStore == InitStore /\ [][NextStore]_vars

(***************************************************************************)
(* Properties of the functions called on their own.                        *)
(***************************************************************************)
SafeStrategies == {"_fill_eeo_select", "_fill_eeo_radio"}

StandardStrategies == {"_fill_select", "_fill_radio"}

\* C11 as stated: every select or radio fill on a high-risk field
\* (authorization, compensation or EEO type) is dispatched to the safe variant
\* and never to the standard select or radio strategy.
C11_AsStated ==
  (/\ call.op = "_fill_by_type"
   /\ call.field.input_type \in {"select", "radio"}
   /\ call.field.field_type \in HIGH_RISK_FIELDS)
  => ret.strategy \in SafeStrategies

\* C11 amended: a select or radio fill is dispatched to the safe variant, and
\* never to the standard strategy, exactly when the field is of an EEO type
\* (gender, ethnicity, race, Hispanic/Latino, veteran or disability status) or
\* its label contains an EEO keyword; a select or radio of authorization or
\* compensation type whose label has no EEO keyword goes to the standard
\* strategy.
C11_Amended ==
  (/\ call.op = "_fill_by_type"
   /\ call.field.input_type \in {"select", "radio"})
  => /\ ret.strategy \in SafeStrategies \cup StandardStrategies
     /\ ret.strategy \in SafeStrategies
          <=> \/ call.field.field_type \in
                   {"gender", "ethnicity", "race", "hispanic_latino", "veteran_status",
                    "disability_status"}
              \/ ContainsAny(EEO_KEYWORDS, Lower(call.field.label))
     /\ ret.strategy = "_fill_eeo_select" => call.field.input_type = "select"
     /\ ret.strategy = "_fill_eeo_radio" => call.field.input_type = "radio"

\* an authorization select whose label holds the keyword "eeo" takes the safe
\* select although its type is not an EEO type
C11_Witness ==
  /\ call.op = "_fill_by_type"
  /\ call.field.field_type = "authorized_to_work"
  /\ call.field.input_type = "select"
  /\ call.field.label = <<"E","E","O",":"," ","a","u","t","h","o","r","i","z","e","d"," ","t","o"," ","w","o","r","k","?">>
  /\ ret.strategy = "_fill_eeo_select"

\* what each step of the resolver yields for the call, taken on its own, in the
\* order profile, default answer, custom answer, file attachment, LLM helper;
\* a step that does not apply to the field yields nothing
StepYields(c) ==
  << ValidateValue(c.field, get_field_value(c.profile, c.field.field_type)),
     IF c.field.field_type = "how_did_you_hear"
       THEN c.profile.default_how_did_you_hear ELSE <<>>,
     IF c.answered = <<>> THEN <<>>
     ELSE find_custom_answer(c.field.label, c.field.options, c.answered),
     IF c.field.input_type = "file" THEN FileValue(c.field, c.profile, c.count).value
     ELSE <<>>,
     IF /\ c.llm_available
        /\ c.field.input_type # "file"
        /\ c.field.field_type \notin skip_llm_types
       THEN c.llm_answer ELSE <<>> >>

StepNames == <<"profile", "default", "custom", "file", "llm">>

\* the first step that yields a value, 0 if none does
FirstYielding(y) ==
  IF \E i \in 1..Len(y) : y[i] # <<>>
    THEN CHOOSE i \in 1..Len(y) : y[i] # <<>> /\ \A j \in 1..(i - 1) : y[j] = <<>>
  ELSE 0

\* C12: the resolver's result is the value of the first step, in the order
\* profile lookup (after the provenance check), fixed default, custom-answer
\* match, file-attachment resolution, generative backend, that yields a
\* non-empty value; once a step produced a value no later step is consulted,
\* and the result is empty only if every step applicable to the field yields
\* none.
C12_FirstYieldingStep ==
  call.op = "_get_value_for_field"
  => LET y == StepYields(call)
         i == FirstYielding(y)
     IN  IF i = 0 THEN ret.value = <<>>
         ELSE ret.value = y[i] /\ ret.source = StepNames[i]

\* the value the profile holds for the field of the call
LookedUp(c) == get_field_value(c.profile, c.field.field_type)

\* the premise of C13: the looked-up value contains a visa or authorization
\* token, the field is not of an authorization type and its label has no visa
\* keyword
VisaValueOnOtherField(c) ==
  /\ \E i \in 1..Len(visa_values) : Contains(visa_values[i], Lower(LookedUp(c)))
  /\ c.field.field_type \notin {"visa_status", "authorized_to_work", "require_sponsorship"}
  /\ \A kw \in {<<"v","i","s","a">>, <<"i","m","m","i","g","r","a","t","i","o","n">>, <<"s","p","o","n","s","o","r","s","h","i","p">>, <<"a","u","t","h","o","r","i","z","a","t","i","o","n">>, <<"w","o","r","k"," ","s","t","a","t","u","s">>} :
       ~Contains(kw, Lower(c.field.label))

C14_NoLlmForSimpleFields ==
  (/\ call.op = "_get_value_for_field"
   /\ \/ call.field.field_type \in
           {"first_name", "last_name", "full_name", "email", "phone", "address",
            "zip_code", "linkedin", "github", "portfolio", "website", "resume",
            "cover_letter"}
      \/ call.field.input_type = "file")
  => ret.source # "llm"

\* the stored entries whose normalized question equals the normalized input
ExactEntries(c) ==
  {k \in 1..Len(c.answered) :
     _normalize_question(c.answered[k].question) = _normalize_question(c.question)}

\* the highest accumulated score among the stored entries
BestScore(c) ==
  LET score == [k \in 1..Len(c.answered) |->
                  AnswerScore(c.question, c.options, c.answered[k])]
  IN  CHOOSE m \in Range(score) : \A k \in 1..Len(score) : score[k] <= m

\* C15: find_custom_answer returns the answer of a stored question whose
\* normalized text equals the normalized input whenever such an entry exists,
\* whatever the options, keywords and other entries' scores; without an exact
\* match it returns an answer only if the best accumulated score is at least
\* 30.
C15_ExactFirstElseThreshold ==
  call.op = "find_custom_answer"
  => /\ ExactEntries(call) # {}
          => \E k \in ExactEntries(call) : ret.value = call.answered[k].answer
     /\ (ExactEntries(call) = {} /\ ret.value # <<>>)
          => /\ BestScore(call) >= 30
             /\ \E k \in 1..Len(call.answered) :
                  /\ ret.value = call.answered[k].answer
                  /\ AnswerScore(call.question, call.options, call.answered[k])
                       = BestScore(call)

\* an exact match wins although its answer fits none of the options and another
\* stored entry is present
C15_Witness ==
  /\ call.op = "find_custom_answer"
  /\ call.question = <<"h","a","v","e"," ","y","o","u"," ","e","v","e","r"," ","w","o","r","k","e","d"," ","a","t"," ","a","c","m","e"," ","c","o","r","p","?">>
  /\ call.options = <<<<"M","a","y","b","e">>>>
  /\ Len(call.answered) = 2
  /\ call.answered[2].question = <<"H","a","v","e"," ","y","o","u"," ","e","v","e","r"," ","w","o","r","k","e","d"," ","a","t"," ","A","c","m","e"," ","C","o","r","p","?">>
  /\ ret.value = <<"N","o">>

\* C16: with the stored answer "Have you ever worked at Acme Corp?" -> "No" and
\* the new question "Have you ever been employed by Acme Corp?" the matcher
\* returns "No".
C16_AcmeExample ==
  (/\ call.op = "find_custom_answer"
   /\ call.question = <<"H","a","v","e"," ","y","o","u"," ","e","v","e","r"," ","b","e","e","n"," ","e","m","p","l","o","y","e","d"," ","b","y"," ","A","c","m","e"," ","C","o","r","p","?">>
   /\ call.answered = <<Answered(<<"H","a","v","e"," ","y","o","u"," ","e","v","e","r"," ","w","o","r","k","e","d"," ","a","t"," ","A","c","m","e"," ","C","o","r","p","?">>, <<"N","o">>)>>)
  => ret.value = <<"N","o">>

\* the patterns with a label expression that matches the label of the call
LabelMatches(c) ==
  {i \in 1..Len(FIELD_PATTERNS) :
     AnyPattern(FIELD_PATTERNS[i].label_patterns, Lower(c.label))}

\* the patterns that match any signal of the call
SignalMatches(c) ==
  LabelMatches(c)
  \cup {i \in 1..Len(FIELD_PATTERNS) :
          \/ AnyPattern(FIELD_PATTERNS[i].name_patterns, Lower(c.name))
          \/ AnyPattern(FIELD_PATTERNS[i].name_patterns, Lower(c.id_attr))
          \/ AnyPattern(FIELD_PATTERNS[i].placeholder_patterns, Lower(c.placeholder))}

\* C17: for every (label, name, id, placeholder) in which exactly one catalog
\* pattern has a label expression matching the label and no other pattern
\* matches any signal, classification returns that pattern's type with
\* confidence 0.9; if no pattern matches it returns (unknown, 0); the
\* confidence is always one of 0, 0.7, 0.8, 0.9.
C17_Classification ==
  call.op = "_match_field_type"
  => /\ \A i \in 1..Len(FIELD_PATTERNS) :
          (LabelMatches(call) = {i} /\ SignalMatches(call) = {i})
            => ret = [field_type |-> FIELD_PATTERNS[i].field_type, confidence |-> 9]
     /\ SignalMatches(call) = {} => ret = [field_type |-> "unknown", confidence |-> 0]
     /\ ret.confidence \in {0, 7, 8, 9}

\* the label "Cover Letter" with the name cover_letter: the cover-letter
\* pattern alone matches, by label and by name
C17_Witness ==
  /\ call.op = "_match_field_type"
  /\ call.label = <<"C","o","v","e","r"," ","L","e","t","t","e","r">>
  /\ call.name = <<"c","o","v","e","r","_","l","e","t","t","e","r">>
  /\ call.id_attr = <<>>
  /\ call.placeholder = <<>>
  /\ LabelMatches(call) = {6}
  /\ SignalMatches(call) = {6}
  /\ ret = [field_type |-> "cover_letter", confidence |-> 9]

(***************************************************************************)
(* fill_all_fields over documents of file inputs: the first pass of one    *)
(* run, on a page where the fill reveals no further field.                 *)
(***************************************************************************)
MaxFiles == 3

\* fill_all_fields is entered with the extracted fields of a document:
\* 1..MaxFiles distinct file inputs in any order
FilesStart ==
  LET \* file inputs, each with the type FIELD_PATTERNS assigns to its label and name
      FileControls ==
        {Control(<<"A","t","t","a","c","h">>, <<>>, <<>>, "resume", "file", <<>>, TRUE, <<>>, FALSE),
         Control(<<"R","e","s","u","m","e","/","C","V">>, <<"r","e","s","u","m","e">>, <<>>, "resume", "file", <<>>, TRUE, <<>>, FALSE),
         Control(<<"C","o","v","e","r"," ","l","e","t","t","e","r">>, <<"c","o","v","e","r","_","l","e","t","t","e","r">>, <<>>, "cover_letter", "file", <<>>, FALSE,
                 <<>>, FALSE),
         Control(<<"M","o","t","i","v","a","t","i","o","n"," ","l","e","t","t","e","r">>, <<>>, <<>>, "unknown", "file", <<>>, TRUE, <<>>, FALSE),
         Control(<<"U","p","l","o","a","d"," ","f","i","l","e">>, <<>>, <<>>, "unknown", "file", <<>>, TRUE, <<>>, FALSE),
         Control(<<"O","t","h","e","r"," ","d","o","c","u","m","e","n","t","s">>, <<>>, <<>>, "unknown", "file", <<>>, TRUE, <<>>, FALSE),
         Control(<<"A","n","y","t","h","i","n","g"," ","e","l","s","e">>, <<>>, <<>>, "unknown", "file", <<>>, FALSE, <<>>, FALSE)}
  IN  LET FileDocs ==
            UNION {{q \in [1..n -> FileControls] : \A i, j \in 1..n : i # j => q[i] # q[j]} :
                     n \in 1..MaxFiles}
      IN  /\ UNCHANGED jobvars
          /\ pc = "idle"
          /\ call = NoCall
          /\ \E d \in FileDocs, resume_path \in {<<>>, <<"/","c","v","/","r","e","s","u","m","e",".","p","d","f">>} :
               /\ fields' = d
               /\ call' = [op |-> "fill_all_fields",
                           profile |-> [EmptyProfile EXCEPT !.resume_path = resume_path]]
          /\ idx' = 1
          /\ _file_input_count' = 0
          /\ filled_labels' = <<>>
          /\ results' = <<>>
          /\ pc' = "first"
          /\ UNCHANGED <<doc, scenario, shown, value, store, run, pass_num, dynamic_fields,
                         didx, ridx, first_name_element, first_name_value, log, prev_clean,
                         ret>>

\* one turn of the loop of fill_all_fields on a file input
FilesStep ==
  /\ UNCHANGED jobvars
  /\ pc = "first"
  /\ call.op = "fill_all_fields"
  /\ idx <= Len(fields)
  /\ idx' = idx + 1
  /\ LET field == fields[idx]
         key == field_key(field)
     IN  IF \/ field.field_type = "unknown" /\ ~field.is_required
            \/ key \in DOMAIN filled_labels /\ filled_labels[key]
           THEN UNCHANGED <<_file_input_count, filled_labels, results, store>>
         ELSE \E r \in {fill_field(field, call.profile, store, <<>>, FALSE, JobInfo,
                                   _file_input_count, e) : e \in Envs(field)} :
                /\ _file_input_count' = r.count
                /\ filled_labels' = Mark(filled_labels, key, r.success)
                /\ store' = r.store
                /\ results' = Append(results,
                                     [pos |-> idx, field |-> field,
                                      filled_value |-> r.filled_value,
                                      success |-> r.success,
                                      uploaded |-> IF r.wrote THEN r.newval ELSE <<>>])
  /\ UNCHANGED <<doc, scenario, shown, value, pc, run, fields, pass_num,
                 dynamic_fields, didx, ridx, first_name_element, first_name_value,
                 log, prev_clean, call, ret>>

\* the loop is over and no new field appeared: fill_all_fields returns
FilesReturn ==
  /\ UNCHANGED jobvars
  /\ pc = "first"
  /\ call.op = "fill_all_fields"
  /\ idx > Len(fields)
  /\ pc' = "idle"
  /\ call' = NoCall
  /\ UNCHANGED <<doc, scenario, shown, value, store, run, fields, idx, pass_num,
                 dynamic_fields, didx, results, ridx, filled_labels,
                 first_name_element, first_name_value, _file_input_count, log,
                 prev_clean, ret>>

\* a re-acquisition that tries once more
_reacquire_element_OneMore(selector, outcomes) ==
  IF selector = <<>> THEN [found |-> TRUE, attempts |-> 0]
  ELSE LET retries == 3 + 1
           hits == {i \in 1..retries : outcomes[i] = "attached"}
       IN  IF hits = {} THEN [found |-> FALSE, attempts |-> retries]
           ELSE [found |-> TRUE,
                 attempts |-> CHOOSE i \in hits : \A j \in hits : i <= j]

\* _reacquire_element: outcomes[i] is what the i-th query of the selector meets,
\* an attached element, a detached one, none, or an exception
_reacquire_element(selector, outcomes) ==
  IF selector = <<>> THEN [found |-> TRUE, attempts |-> 0]
  ELSE LET retries == 3
           hits == {i \in 1..retries : outcomes[i] = "attached"}
       IN  IF hits = {} THEN [found |-> FALSE, attempts |-> retries]
           ELSE [found |-> TRUE,
                 attempts |-> CHOOSE i \in hits : \A j \in hits : i <= j]

\* fill_field called on a new filler for a text, file or EEO select field: the element is
\* re-acquired by selector, else found by its label (by_label), and the
\* interaction may raise into the except clause of fill_field
CallFillField ==
  /\ UNCHANGED jobvars
  /\ pc = "idle"
  /\ call = NoCall
  /\ fields = <<>>
  /\ \E field \in {f \in CallFields :
                     _fill_by_type_strategy(f)
                       \in {"_fill_text", "_fill_file", "_fill_eeo_select"}},
        outcomes \in {<<"attached", "attached", "attached", "attached">>,
                      <<"detached", "none", "attached", "attached">>,
                      <<"none", "raised", "detached", "attached">>,
                      <<"raised", "raised", "raised", "raised">>},
        by_label \in BOOLEAN, raises \in BOOLEAN :
       LET selector == _build_selector(field)
           reacquired == _reacquire_element(selector, outcomes)
           found == reacquired.found \/ by_label
           p == [EmptyProfile EXCEPT !.resume_path = <<"/","c","v","/","r","e","s","u","m","e",".","p","d","f">>,
                                     !.city = <<"O","s","l","o">>, !.visa_status = <<"H","-","1","B">>]
       IN  \E e \in {x \in Envs(field) : x.found = (found /\ ~raises)} :
             LET r == fill_field(field, p, store, <<>>, Sc.llm_available, JobInfo, 0, e)
             IN  /\ call' = [op |-> "fill_field", field |-> field, profile |-> p,
                             outcomes |-> outcomes, by_label |-> by_label,
                             raises |-> raises]
                 /\ ret' = [filled_value |-> r.filled_value, success |-> r.success,
                            is_high_risk |-> r.is_high_risk, wrote |-> r.wrote,
                            issued |-> r.issued,
                            attempts |-> IF r.how = "novalue" THEN 0
                                         ELSE reacquired.attempts]
  /\ UNCHANGED <<doc, scenario, shown, value, store, pc, run, fields, idx, pass_num,
                 dynamic_fields, didx, results, ridx, filled_labels,
                 first_name_element, first_name_value, _file_input_count, log,
                 prev_clean>>

NextFiles == FilesStart \/ FilesStep \/ FilesReturn \/ CallFillField \/ Return

SpecFiles == InitEeo /\ [][NextFiles]_vars

(***************************************************************************)
(* Properties of the file inputs of one run.                               *)
(***************************************************************************)
HasKeyword(field, kws) ==
  \E kw \in kws : Contains(kw, Lower(field.label)) \/ Contains(kw, Lower(field.name))

\* a file input that names neither the resume nor the cover letter
Unlabelled(field) == ~HasKeyword(field, {<<"r","e","s","u","m","e">>, <<"c","v">>, <<"c","o","v","e","r">>, <<"l","e","t","t","e","r">>})

\* C18: within one fill run, among the file controls whose label and name carry
\* neither a resume nor a cover-letter keyword only the first one has the
\* resume uploaded and the later ones receive no upload; a cover-letter
\* control (label or name contains "cover" or "letter") never receives the
\* resume file.
C18_OneResumeUpload ==
  call.op = "fill_all_fields"
  => \A j \in 1..Len(results) :
       /\ (/\ Unlabelled(results[j].field)
           /\ \E i \in 1..(j - 1) : Unlabelled(results[i].field))
            => results[j].uploaded = <<>>
       /\ HasKeyword(results[j].field, {<<"c","o","v","e","r">>, <<"l","e","t","t","e","r">>})
            => results[j].uploaded = <<>>

(***************************************************************************)
(* run.py, logger.py: process_job for the jobs of a batch.  The fill       *)
(* itself is one step here; the browser may fail or raise at every step    *)
(* inside the try block.  Writing session.json is taken to succeed.        *)
(***************************************************************************)
MaxJobs == 2

\* the defaults of wait_for_url_change, the only values it is called with
timeout_seconds == 300

check_interval == 2

\* ApplicationLogger.update_status
update_status(lg, status) ==
  IF lg._current_app = <<>> THEN lg ELSE [lg EXCEPT !._current_app.status = status]

\* a logger whose complete_application marks every unsuccessful application failed
complete_application_AlwaysFailed(lg, success) ==
  IF lg._current_app = <<>> THEN lg
  ELSE LET app == lg._current_app
           status == IF success /\ app.status = "confirmed" THEN "submitted"
                     ELSE IF ~success THEN "failed"
                     ELSE app.status
       IN  [applications |-> Append(lg.applications, [app EXCEPT !.status = status]),
            _current_app |-> <<>>]

\* ApplicationLogger.complete_application, with the save to session.json
complete_application(lg, success) ==
  IF lg._current_app = <<>> THEN lg
  ELSE LET app == lg._current_app
           status == IF success /\ app.status = "confirmed" THEN "submitted"
                     ELSE IF ~success /\ app.status \notin {"skipped", "failed"}
                       THEN "failed"
                     ELSE app.status
       IN  [applications |-> Append(lg.applications, [app EXCEPT !.status = status]),
            _current_app |-> <<>>]

\* ApplicationLogger.skip_application
skip_application(lg) ==
  IF lg._current_app = <<>> THEN lg
  ELSE complete_application(update_status(lg, "skipped"), FALSE)

\* the loop condition of wait_for_url_change, turned around
KeepWaiting_Inclusive(e) == e <= timeout_seconds

\* the loop condition of wait_for_url_change
KeepWaiting(e) == e < timeout_seconds

\* process_job returns result to the batch loop, leaving the logger as lg; how
\* tells which path led to the return: the submit button clicked or not found,
\* the terminal confirmation given or refused, the URL change seen or the wait
\* timed out, or one of the failures
EndJob(lg, result, how) ==
  /\ logger' = lg
  /\ returns' = Append(returns, [result |-> result, how |-> how])
  /\ pc' = "idle"
  /\ call' = NoCall
  /\ ret' = NoCall
  /\ UNCHANGED <<page_url, elapsed, polls>>

\* the batch loop calls process_job for the next job (which has a URL)
ProcessJobStart ==
  /\ pc = "idle"
  /\ call = NoCall
  /\ Len(returns) < MaxJobs
  /\ \E auto_submit \in BOOLEAN, browser_confirm_only \in BOOLEAN :
       call' = [op |-> "process_job", auto_submit |-> auto_submit,
                browser_confirm_only |-> browser_confirm_only]
  /\ logger' = [logger EXCEPT !._current_app =
                                [job |-> Len(returns) + 1, status |-> "pending"]]
  /\ pc' = "navigate"
  /\ page_url' = "form"
  /\ UNCHANGED <<doc, scenario, shown, value, store, run, fields, idx, pass_num,
                 dynamic_fields, didx, results, ridx, filled_labels,
                 first_name_element, first_name_value, _file_input_count, log,
                 prev_clean, ret, elapsed, polls, returns>>

\* browser.navigate, the first screenshot and the ATS detection
Navigate ==
  /\ pc = "navigate"
  /\ \E outcome \in {"ok", "failed", "raised"} :
       CASE outcome = "ok" ->
              /\ logger' = update_status(logger, "navigated")
              /\ pc' = "extract"
              /\ UNCHANGED <<page_url, elapsed, polls, returns, call, ret>>
         [] outcome = "failed" ->
              EndJob(complete_application(logger, FALSE), FALSE, "navigation")
         [] outcome = "raised" ->
              EndJob(complete_application(logger, FALSE), FALSE, "exception")
  /\ UNCHANGED <<doc, scenario, shown, value, store, run, fields, idx, pass_num,
                 dynamic_fields, didx, results, ridx, filled_labels,
                 first_name_element, first_name_value, _file_input_count, log,
                 prev_clean>>

\* the extractions of process_job (before and after the Apply button, after
\* waiting, after scrolling): some fields at the end, or none at all
DetectForm ==
  /\ pc = "extract"
  /\ \E outcome \in {"fields", "none", "raised"} :
       CASE outcome = "fields" ->
              /\ logger' = update_status(logger, "form_detected")
              /\ pc' = "fill"
              /\ UNCHANGED <<page_url, elapsed, polls, returns, call, ret>>
         [] outcome = "none" ->
              EndJob(skip_application(logger), FALSE, "no_fields")
         [] outcome = "raised" ->
              EndJob(complete_application(logger, FALSE), FALSE, "exception")
  /\ UNCHANGED <<doc, scenario, shown, value, store, run, fields, idx, pass_num,
                 dynamic_fields, didx, results, ridx, filled_labels,
                 first_name_element, first_name_value, _file_input_count, log,
                 prev_clean>>

\* fill_all_fields, the log of the filled fields and the LLM retry
FillForm ==
  /\ pc = "fill"
  /\ \E outcome \in {"ok", "raised"} :
       CASE outcome = "ok" ->
              /\ logger' = update_status(logger, "filled")
              /\ pc' = "confirm"
              /\ UNCHANGED <<page_url, elapsed, polls, returns, call, ret>>
         [] outcome = "raised" ->
              EndJob(complete_application(logger, FALSE), FALSE, "exception")
  /\ UNCHANGED <<doc, scenario, shown, value, store, run, fields, idx, pass_num,
                 dynamic_fields, didx, results, ridx, filled_labels,
                 first_name_element, first_name_value, _file_input_count, log,
                 prev_clean>>

\* the confirmation: auto-pilot clicks the submit button, the terminal mode asks
\* the user, the browser mode starts to wait for the URL to change
Confirm ==
  /\ pc = "confirm"
  /\ \E outcome \in {"yes", "no", "raised"} :
       CASE outcome = "raised" ->
              EndJob(complete_application(logger, FALSE), FALSE, "exception")
         [] outcome # "raised" /\ call.auto_submit ->
              EndJob(complete_application(
                       IF outcome = "yes"
                         THEN update_status(update_status(logger, "confirmed"),
                                            "submitted")
                       ELSE update_status(logger, "confirmed"),
                       TRUE),
                     TRUE, IF outcome = "yes" THEN "clicked" ELSE "no_button")
         [] outcome # "raised" /\ ~call.auto_submit /\ call.browser_confirm_only ->
              /\ pc' = "wait"
              /\ elapsed' = 0
              /\ polls' = 0
              /\ UNCHANGED <<logger, page_url, returns, call, ret>>
         [] outcome = "yes" /\ ~call.auto_submit /\ ~call.browser_confirm_only ->
              EndJob(complete_application(update_status(logger, "confirmed"), TRUE),
                     TRUE, "confirmed")
         [] outcome = "no" /\ ~call.auto_submit /\ ~call.browser_confirm_only ->
              EndJob(skip_application(logger), FALSE, "cancelled")
  /\ UNCHANGED <<doc, scenario, shown, value, store, run, fields, idx, pass_num,
                 dynamic_fields, didx, results, ridx, filled_labels,
                 first_name_element, first_name_value, _file_input_count, log,
                 prev_clean>>

\* the user clicks Submit in the browser while the script waits
UserSubmits ==
  /\ pc = "wait"
  /\ page_url = "form"
  /\ page_url' = "thanks"
  /\ UNCHANGED <<doc, scenario, shown, value, store, pc, run, fields, idx, pass_num,
                 dynamic_fields, didx, results, ridx, filled_labels,
                 first_name_element, first_name_value, _file_input_count, log,
                 prev_clean, call, ret, logger, elapsed, polls, returns>>

\* wait_for_url_change: one turn of the loop (read page.url, return True or sleep),
\* or the return of False once the loop condition fails
WaitStep ==
  /\ pc = "wait"
  /\ IF KeepWaiting(elapsed)
       THEN /\ polls' = polls + 1
            /\ IF page_url # "form"
                 THEN /\ pc' = "waited"
                      /\ ret' = [submitted |-> TRUE]
                      /\ UNCHANGED elapsed
               ELSE /\ elapsed' = elapsed + check_interval
                    /\ UNCHANGED <<pc, ret>>
     ELSE /\ pc' = "waited"
          /\ ret' = [submitted |-> FALSE]
          /\ UNCHANGED <<elapsed, polls>>
  /\ UNCHANGED <<doc, scenario, shown, value, store, run, fields, idx, pass_num,
                 dynamic_fields, didx, results, ridx, filled_labels,
                 first_name_element, first_name_value, _file_input_count, log,
                 prev_clean, call, logger, page_url, returns>>

\* process_job after wait_for_url_change: submitted either way
AfterWait ==
  /\ pc = "waited"
  /\ EndJob(complete_application(update_status(logger, "submitted"), TRUE), TRUE,
            IF ret.submitted THEN "url_changed" ELSE "timeout")
  /\ UNCHANGED <<doc, scenario, shown, value, store, run, fields, idx, pass_num,
                 dynamic_fields, didx, results, ridx, filled_labels,
                 first_name_element, first_name_value, _file_input_count, log,
                 prev_clean>>

NextJob ==
  \/ ProcessJobStart
  \/ Navigate
  \/ DetectForm
  \/ FillForm
  \/ Confirm
  \/ UserSubmits
  \/ WaitStep
  \/ AfterWait

\* asyncio resumes the waiting coroutine after every sleep
SpecJob == InitEeo /\ [][NextJob]_vars /\ WF_vars(WaitStep)

(***************************************************************************)
(* Properties of wait_for_url_change and process_job                       *)
(***************************************************************************)
\* the application that process_job completed last
LastApplication(lg) == lg.applications[Len(lg.applications)]

\* C19: wait_for_url_change always terminates. It reads the page URL once per
\* interval and at most timeout/interval times, returns True at the first poll
\* that sees a URL other than the initial one, and False only when all polls
\* are used up; after either outcome the application is completed with status
\* submitted and process_job returns True.
C19_WaitTerminates ==
  /\ [](/\ polls * check_interval <= timeout_seconds
        /\ pc = "wait" => elapsed = polls * check_interval)
  /\ [][/\ pc = "wait" /\ polls' = polls + 1 /\ page_url # "form"
             => pc' = "waited" /\ ret'.submitted
        /\ pc = "wait" /\ pc' = "waited" /\ ret'.submitted
             => polls' = polls + 1 /\ page_url # "form"
        /\ pc = "wait" /\ pc' = "waited" /\ ~ret'.submitted
             => polls' = polls /\ (polls + 1) * check_interval > timeout_seconds
        /\ pc = "waited"
             => /\ pc' = "idle"
                /\ Len(logger'.applications) = Len(logger.applications) + 1
                /\ LastApplication(logger').status = "submitted"
                /\ returns'[Len(returns')].result]_vars
  /\ (pc = "wait") ~> (pc = "waited")

\* a wait that timed out with the form still open, recorded as submitted
C19_Witness ==
  /\ pc = "idle"
  /\ returns # <<>>
  /\ returns[Len(returns)].how = "timeout"
  /\ page_url = "form"
  /\ polls * check_interval = timeout_seconds
  /\ LastApplication(logger).status = "submitted"

PassedOver(i) ==
  \/ fields[i].field_type = "unknown" /\ ~fields[i].is_required
  \/ \E j \in 1..Len(results) :
       /\ results[j].pos < i
       /\ field_key(results[j].field) = field_key(fields[i])
       /\ results[j].success

C22_WitnessLoop ==
  /\ call.op = "fill_all_fields"
  /\ Len(results) >= 2
  /\ ~results[1].success
  /\ results[2].pos > results[1].pos

(***************************************************************************)
(* Properties of the frame locator                                         *)
(***************************************************************************)
\* C23: _find_form_frame never raises, leaves _iframe_selector empty exactly when
\* it returns the top-level document, and otherwise leaves a selector with
\* which _get_active_frame returns the same embedded document.
C23_PathDesignatesFrame ==
  call.op = "_find_form_frame" =>
    /\ ~ret.raised
    /\ (ret._iframe_selector = <<>>) = (ret.frame = 0)
    /\ ret.frame # 0 => ~ret.again.raised /\ ret.again.frame = ret.frame

(***************************************************************************)
(* Properties of the locators of extracted controls                        *)
(***************************************************************************)
\* C24: the two controls extracted from a document never receive equal
\* locators, so that each locator resolves to the control it was built for.
C24_LocatorsDiffer ==
  call.op = "_build_selector" => ret.selector[1] # ret.selector[2]

(***************************************************************************)
(* Properties of the standard select strategy                              *)
(***************************************************************************)
\* C25: for a non-empty target _fill_select selects an option equal to the
\* target without regard to case if there is one, else one in substring
\* relation with it, else a yes/no match, and never an option with empty text
\* or the text "Select..."; for "Select...", "Yes, I am authorized", "No, I
\* require sponsorship" and the target "Yes" it selects "Yes, I am authorized".
C25_SelectNeverPlaceholder ==
  call.op = "_fill_select" =>
    LET options == call.options
        target == Strip(Lower(call.value))
        chosen == options[ret.selected]
        Equal(i) == Lower(options[i]) = target
        Partial(i) == \/ Contains(target, Lower(options[i]))
                      \/ Contains(Lower(options[i]), target)
        YesNo_(i) == \/ target \in {<<"y","e","s">>, <<"t","r","u","e">>} /\ Lower(options[i]) \in {<<"y","e","s">>, <<"t","r","u","e">>}
                     \/ target \in {<<"n","o">>, <<"f","a","l","s","e">>} /\ Lower(options[i]) \in {<<"n","o">>, <<"f","a","l","s","e">>}
    IN  /\ ret.selected # 0 =>
              /\ Strip(chosen) # <<>>
              /\ Lower(chosen) # <<"s","e","l","e","c","t",".",".",".">>
              /\ Equal(ret.selected) \/ Partial(ret.selected) \/ YesNo_(ret.selected)
        /\ (\E i \in 1..Len(options) : Equal(i)) => Equal(ret.selected)
        /\ options = <<<<"S","e","l","e","c","t",".",".",".">>, <<"Y","e","s",","," ","I"," ","a","m"," ","a","u","t","h","o","r","i","z","e","d">>, <<"N","o",","," ","I"," ","r","e","q","u","i","r","e"," ","s","p","o","n","s","o","r","s","h","i","p">>>>
             /\ call.value = <<"Y","e","s">>
             => ret.selected = 2

(***************************************************************************)
(* Properties of the custom-dropdown strategy                              *)
(***************************************************************************)
\* the places where the target begins in the option text
Occurrences(target, text) ==
  {i \in 1..(Len(text) - Len(target) + 1) : SubSeq(text, i, i + Len(target) - 1) = target}

\* with a blank target nothing is clicked; the option clicked as best match has
\* a score above 0 that no visible option exceeds
NoVacuousSelection ==
  LET target == Strip(Lower(call.value))
      calls == ret.result.calls
  IN  /\ target = <<>> => ~ret.result.ok /\ calls = <<>>
      /\ \A c \in 1..Len(calls) :
           calls[c].stage = 1
             => /\ ret.score[calls[c].opt] > 0
                /\ \A k \in 1..Len(call.visible_options) :
                     ret.score[k] <= ret.score[calls[c].opt]

\* C26: no vacuous selection, and an option that contains the target only as
\* a fragment of a longer word scores 0.
C26_NoVacuousSelection ==
  call.op = "_fill_eeo_text_dropdown" =>
    /\ NoVacuousSelection
    /\ \A k \in 1..Len(call.visible_options) :
         LET target == Strip(Lower(call.value))
             text == Lower(call.visible_options[k])
         IN  target # <<>> /\ Occurrences(target, text) # {}
               /\ ~WordBoundaryMatch(target, text)
               => ret.score[k] = 0

(***************************************************************************)
(* Radio groups.                                                           *)
(***************************************************************************)
\* radio k of the call matches the desired value by one of the four rules
RadioMatched(k) ==
  LET stages == RadioStages(call.radios, Strip(Lower(call.value)))
  IN  \E s \in 1..4 : k \in Range(stages[s])

\* C27: a radio whose value or label equals the desired value is selected in
\* preference to one that matches only partially, whatever their order, and
\* the radio selected matches by the exact, yes/no, partial or decline rule.
C27_RadioExactFirst ==
  call.op = "_fill_radio" =>
    LET exact == Range(RadioExactCands(call.radios, Strip(Lower(call.value))))
    IN  /\ exact # {} => ret.sel \in exact
        /\ ret.sel # 0 => RadioMatched(ret.sel)

C29_SavesKeepStoreDuplicateFree ==
  /\ \A i, j \in 1..Len(store.pending) :
       i # j => _normalize_question(store.pending[i].question)
                  # _normalize_question(store.pending[j].question)
  /\ \A i \in 1..Len(store.pending) :
       store.pending[i].job = JobInfo
         => \A k \in 1..Len(store.answered) :
              _normalize_question(store.answered[k].question)
                # _normalize_question(store.pending[i].question)
  /\ call.op = "save_pending_question" /\ ~ret.saved => store = call.store

\* a save has been rejected for a question that differs in spelling from the
\* stored one, after another save was accepted
C29_Witness ==
  /\ call.op = "save_pending_question"
  /\ ~ret.saved
  /\ \A k \in 1..Len(store.answered) : store.answered[k].question # call.question
  /\ \A k \in 1..Len(store.pending) : store.pending[k].question # call.question
  /\ \E k \in 1..Len(store.pending) : store.pending[k].job = JobInfo

(***************************************************************************)
(* The status logged for an application.                                   *)
(***************************************************************************)
\* C30: an application is logged as submitted only if the submit button was
\* clicked, the wait saw the URL change or the wait timed out; one that was
\* only filled and confirmed, or whose submit button was not found, is not.
C30_SubmittedOnlyAfterSubmission ==
  \A k \in 1..Len(logger.applications) :
    logger.applications[k].status = "submitted"
      => returns[k].how \in {"clicked", "url_changed", "timeout"}

====
